---- MODULE Spec2Model ----
(***************************************************************************)
(* Model of the image metadata parser (src/parser.ts).                     *)
(*                                                                         *)
(* Text is a sequence of UTF-16 code units (JavaScript strings), a byte    *)
(* buffer is a sequence of 0..255.  Positions are JavaScript positions     *)
(* (0-based); At and Slice translate them.  JavaScript null is Null.       *)
(***************************************************************************)
EXTENDS Integers, Sequences, FiniteSets, TLC

VARIABLES
    pc,          \* position of the caller of the modelled function
    buf,         \* parseImageMeta: the byte buffer
    ext,         \* parseImageMeta: the format hint
    threw,       \* parseImageMeta: TRUE when the call raised an error
    format,      \* the result's format
    raw,         \* the result's raw record (the record handed to the normalizer)
    fields,      \* the result's fields: normalizeKnownFields(raw)
    exifTexts,   \* parseJpeg / parseWebp: the texts read from EXIF
    xmpXml,      \* parseJpeg / parseWebp: the XMP text, or Null
    jpegComment, \* parseJpeg: the comment text, or Null
    tryTexts,    \* parseJpeg / parseWebp: the candidate texts, in order
    selected,    \* selectBestParametersFromTexts(tryTexts)
    rec,         \* what recoverParameters returned (JNull when it was not called)
    src,         \* extractA1111BlockFromText: the text handed to the locator
    blk,         \* extractA1111BlockFromText(src)
    blk2,        \* extractA1111BlockFromText(blk)
    walk,        \* a loop taken one iteration at a time: its offsets and its step count
    view         \* the sidebar view: its fields, its pane and its renders in flight

locVars == <<src, blk, blk2>>
normVars == <<raw, fields>>
callVars == <<buf, ext, threw, format, exifTexts, xmpXml, jpegComment, tryTexts, selected, rec>>
vars == <<pc, buf, ext, threw, format, raw, fields, exifTexts, xmpXml, jpegComment,
          tryTexts, selected, rec, src, blk, blk2, walk, view>>

Null == <<-1>>

\* no loop is being stepped
NoWalk ==
    [loop |-> "none", at |-> "test", start |-> 0, off |-> 0, prev |-> 0, depth |-> 0,
     steps |-> 0, done |-> TRUE]

\* no sidebar view is open
NoView == [variant |-> "none"]


\* ---------------------------------------------------------------- strings

Min(S) == CHOOSE x \in S : \A y \in S : x <= y
Max(S) == CHOOSE x \in S : \A y \in S : x >= y

\* the least (greatest) element of S, or d when S is empty
MinOr(S, d) == IF S = {} THEN d ELSE Min(S)
MaxOr(S, d) == IF S = {} THEN d ELSE Max(S)

At(s, i) == s[i + 1]
Slice(s, a, b) == SubSeq(s, a + 1, b)

RECURSIVE Concat(_)
Concat(ss) == IF ss = <<>> THEN <<>> ELSE Head(ss) \o Concat(Tail(ss))

StartsAt(s, i, p) ==
    /\ i >= 0
    /\ i + Len(p) <= Len(s)
    /\ \A k \in 1..Len(p) : s[i + k] = p[k]

\* String.prototype.indexOf(p, from)
IndexOfFrom(s, p, from) ==
    MinOr({i \in from..(Len(s) - Len(p)) : StartsAt(s, i, p)}, -1)

IndexOf(s, p) == IndexOfFrom(s, p, 0)

\* String.prototype.lastIndexOf(p, from)
LastIndexOfFrom(s, p, from) ==
    MaxOr({i \in 0..from : StartsAt(s, i, p)}, -1)

Includes(s, p) == IndexOf(s, p) >= 0

\* ASCII case folding: the code units of the modelled texts are ASCII or
\* have no case mapping, so toLowerCase and the regular expressions' i flag
\* act on A..Z only.
LowerChar(c) == IF c \in 65..90 THEN c + 32 ELSE c
toLowerCase(s) == [k \in 1..Len(s) |-> LowerChar(s[k])]

StartsAtCI(s, i, p) ==
    /\ i + Len(p) <= Len(s)
    /\ \A k \in 1..Len(p) : LowerChar(s[i + k]) = LowerChar(p[k])

\* ^ of a regular expression with the m flag: after a LineTerminator
IsLineTerminator(c) == c \in {10, 13, 8232, 8233}
\* \s and String.prototype.trim
IsWhiteSpace(c) == c \in {9, 10, 11, 12, 13, 32, 160, 5760, 8232, 8233, 8239, 8287, 12288, 65279} \/ c \in 8192..8202
\* [\t ]
IsBlank(c) == c \in {9, 32}

SkipBlanks(s, i) == Min({j \in i..Len(s) : j = Len(s) \/ ~IsBlank(At(s, j))})
SkipWhiteSpace(s, i) == Min({j \in i..Len(s) : j = Len(s) \/ ~IsWhiteSpace(At(s, j))})

\* s without what precedes and follows the positions keep
Trimmed(s, keep) == IF keep = {} THEN <<>> ELSE SubSeq(s, Min(keep), Max(keep))

trim(s) == Trimmed(s, {k \in 1..Len(s) : ~IsWhiteSpace(s[k])})

\* ------------------------------------------------------- UTF-16 decoding

U16(b, k, le) ==
    IF le THEN b[2 * k - 1] + 256 * b[2 * k] ELSE 256 * b[2 * k - 1] + b[2 * k]

IsHighSurrogate(c) == c \in 55296..56319
IsLowSurrogate(c) == c \in 56320..57343

\* The WHATWG utf-16 decoder without the BOM step: k is the next code unit,
\* lead a pending high surrogate (or -1).
Utf16Step(b, le, st) ==
    LET c == U16(b, st.k, le)
    IN  IF st.lead >= 0
        THEN IF IsLowSurrogate(c)
             THEN [k |-> st.k + 1, lead |-> -1, acc |-> st.acc \o <<st.lead, c>>]
             ELSE [k |-> st.k, lead |-> -1, acc |-> Append(st.acc, 65533)]
        ELSE IF IsHighSurrogate(c) THEN [k |-> st.k + 1, lead |-> c, acc |-> st.acc]
        ELSE IF IsLowSurrogate(c) THEN [k |-> st.k + 1, lead |-> -1, acc |-> Append(st.acc, 65533)]
        ELSE [k |-> st.k + 1, lead |-> -1, acc |-> Append(st.acc, c)]

Utf16Done(b, st) == 2 * st.k > Len(b)

\* the decoder's loop from st: it ends within n steps
RECURSIVE Utf16Run(_, _, _, _)
Utf16Run(b, le, st, n) ==
    IF n = 0 \/ Utf16Done(b, st) THEN st
    ELSE IF n = 1 THEN Utf16Step(b, le, st)
    ELSE Utf16Run(b, le, Utf16Run(b, le, st, n \div 2), n - n \div 2)

\* end of input: a pending surrogate or an odd byte gives U+FFFD
Utf16Flush(b, st) ==
    IF st.lead >= 0 \/ Len(b) % 2 = 1 THEN Append(st.acc, 65533) ELSE st.acc

Utf16Loop(b, le) ==
    Utf16Flush(b, Utf16Run(b, le, [k |-> 1, lead |-> -1, acc |-> <<>>], Len(b) + 1))

\* new TextDecoder("utf-16le" | "utf-16be").decode(b): a leading BOM of the
\* decoder's own byte order is dropped, errors become U+FFFD.
DecodeUtf16(b, le) ==
    Utf16Loop(IF StartsAt(b, 0, IF le THEN <<255, 254>> ELSE <<254, 255>>)
              THEN Slice(b, 2, Len(b)) ELSE b,
              le)

ZeroLowCount(s) == Cardinality({k \in 1..Len(s) : s[k] % 256 = 0})

CodeUnitBytesBE(s) ==
    [k \in 1..(2 * Len(s)) |->
        IF k % 2 = 1 THEN (s[(k + 1) \div 2] \div 256) % 256 ELSE s[k \div 2] % 256]

maybeFixUtf16EndianMisdecode(s) ==
    IF s = Null \/ s = <<>> THEN s
    ELSE IF 10 * ZeroLowCount(s) > 3 * Len(s)
         THEN DecodeUtf16(CodeUnitBytesBE(s), TRUE)
         ELSE s

\* ------------------------------------------------- A1111 markers, locator

NEGATIVE_PROMPT_LABEL == <<78,101,103,97,116,105,118,101,32,112,114,111,109,112,116,58>> \* "Negative prompt:"
K_Steps == <<83,116,101,112,115,58>>                                  \* "Steps:"
K_Sampler == <<83,97,109,112,108,101,114,58>>                         \* "Sampler:"
K_CFGscale == <<67,70,71,32,115,99,97,108,101,58>>                    \* "CFG scale:"
K_Seed == <<83,101,101,100,58>>                                       \* "Seed:"
K_Size == <<83,105,122,101,58>>                                       \* "Size:"
K_Model == <<77,111,100,101,108,58>>                                  \* "Model:"
K_ScheduleType == <<83,99,104,101,100,117,108,101,32,116,121,112,101,58>> \* "Schedule type:"
K_Denoising == <<68,101,110,111,105,115,105,110,103,32,115,116,114,101,110,103,116,104,58>> \* "Denoising strength:"
K_HiresSteps == <<72,105,114,101,115,32,115,116,101,112,115,58>>     \* "Hires steps:"

\* /^[\t ]*(k1|k2|...)[^\n]*/mi  .exec(s): the match of least index, or none.
LineStart(s, i) == i = 0 \/ IsLineTerminator(At(s, i - 1))

KeyLineAt(s, i, keys) ==
    /\ LineStart(s, i)
    /\ \E k \in keys : StartsAtCI(s, SkipBlanks(s, i), k)

\* where [^\n]* from i ends
LineEnd(s, i) == MinOr({j \in i..(Len(s) - 1) : At(s, j) = 10}, Len(s))

NoMatch == [found |-> FALSE, index |-> -1, end |-> -1]

\* the match that starts at index, -1 for none
KeyLineMatch(s, index) ==
    IF index < 0 THEN NoMatch
    ELSE [found |-> TRUE, index |-> index, end |-> LineEnd(s, index)]

ExecKeyLine(s, keys) ==
    KeyLineMatch(s, MinOr({i \in 0..Len(s) : KeyLineAt(s, i, keys)}, -1))

SETTINGS_STEPS_RE(s) == ExecKeyLine(s, {K_Steps})
SETTINGS_ANY_RE(s) ==
    ExecKeyLine(s, {K_Sampler, K_CFGscale, K_Seed, K_Size, K_Model,
                    K_ScheduleType, K_Denoising, K_HiresSteps})

\* the match of lesser index among the two
EarlierOf(m1, m2) ==
    IF m1.found /\ (~m2.found \/ m1.index < m2.index) THEN m1 ELSE m2

\* the first line with any key, Steps: among them
FirstKeyLine(s, m1) == EarlierOf(m1, SETTINGS_ANY_RE(s))

\* m1 || SETTINGS_ANY_RE.exec(s)
StepsOrAny(s, m1) == IF m1.found THEN m1 ELSE SETTINGS_ANY_RE(s)

\* what pickSettingsLineWithIndex returns for the match m
PickedLine(s, m) ==
    IF ~m.found THEN [found |-> FALSE, line |-> <<>>, index |-> -1, end |-> -1]
    ELSE [found |-> TRUE, line |-> trim(Slice(s, m.index, m.end)),
          index |-> m.index, end |-> m.end]

\* the settings line is the first line with any key
pickFirstKeyLine(s) == PickedLine(s, FirstKeyLine(s, SETTINGS_STEPS_RE(s)))

pickSettingsLineWithIndex(s) == PickedLine(s, StepsOrAny(s, SETTINGS_STEPS_RE(s)))

\* nlAfterNeg > 0 ? nlAfterNeg + 1 : s.length
TailStart(s, nlAfterNeg) == IF nlAfterNeg > 0 THEN nlAfterNeg + 1 ELSE Len(s)

\* the block that ends with the settings line picked in the tail, or all of s
BlockUpTo(s, tailStart, picked) ==
    IF picked.found THEN Slice(s, 0, tailStart + picked.end) ELSE s

BlockFromTail(s, tailStart) ==
    BlockUpTo(s, tailStart, pickSettingsLineWithIndex(Slice(s, tailStart, Len(s))))

\* the block of s for the label found at negIdx (-1: not found)
BlockFromLabel(s, negIdx) ==
    IF negIdx < 0 THEN Null
    ELSE BlockFromTail(s, TailStart(s, IndexOfFrom(s, <<10>>, negIdx)))

BlockOfFixed(s) == BlockFromLabel(s, IndexOf(s, NEGATIVE_PROMPT_LABEL))

extractA1111BlockFromText(text) ==
    IF text = Null \/ text = <<>> THEN Null
    ELSE BlockOfFixed(maybeFixUtf16EndianMisdecode(text))

\* ------------------------------------------------ JavaScript values
\* A value is a record tagged by t: "undef", "lit" (v: "null", "true" or
\* "false"), "num" (v: a natural number), "str" (v: text), "arr" (v: the
\* sequence of elements), "obj" (v: the own properties as a sequence of
\* <<key, value>> in property order).

Undefined == [t |-> "undef", v |-> 0]
JNull == [t |-> "lit", v |-> "null"]
Str(s) == [t |-> "str", v |-> s]
Num(n) == [t |-> "num", v |-> n]
Arr(a) == [t |-> "arr", v |-> a]
Obj(o) == [t |-> "obj", v |-> o]

IsStr(x) == x.t = "str"
IsUndefined(x) == x.t = "undef"
IsNull(x) == x.t = "lit" /\ x.v = "null"
SameValue(x, y) == x.t = y.t /\ x.v = y.v
IsText(x, s) == x.t = "str" /\ x.v = s
IsObjectType(x) == x.t \in {"obj", "arr"} \/ IsNull(x)     \* typeof x === "object"

Truthy(x) ==
    CASE x.t = "undef" -> FALSE
      [] x.t = "lit" -> x.v = "true"
      [] x.t = "num" -> x.v # 0
      [] x.t = "str" -> x.v # <<>>
      [] OTHER -> TRUE

S_parameters == <<112,97,114,97,109,101,116,101,114,115>>                 \* "parameters"
S_parameters_raw == <<112,97,114,97,109,101,116,101,114,115,95,114,97,119>> \* "parameters_raw"
S_prompt == <<112,114,111,109,112,116>>                                   \* "prompt"
S_negative_prompt == <<110,101,103,97,116,105,118,101,95,112,114,111,109,112,116>> \* "negative_prompt"
S_Prompt == <<80,114,111,109,112,116>>                                    \* "Prompt"
S_NegativePrompt == <<78,101,103,97,116,105,118,101,32,112,114,111,109,112,116>> \* "Negative prompt"
S_json == <<95,106,115,111,110>>                                          \* "_json"
S_prompt_json == <<112,114,111,109,112,116,95,106,115,111,110>>           \* "prompt_json"
S_workflow_json == <<119,111,114,107,102,108,111,119,95,106,115,111,110>> \* "workflow_json"
S_class_type == <<99,108,97,115,115,95,116,121,112,101>>                  \* "class_type"
S_KSampler == <<75,83,97,109,112,108,101,114>>                            \* "KSampler"
S_inputs == <<105,110,112,117,116,115>>                                   \* "inputs"
S_nodes == <<110,111,100,101,115>>                                        \* "nodes"
S_id == <<105,100>>                                                       \* "id"
S_seed == <<115,101,101,100>>                                             \* "seed"
S_steps == <<115,116,101,112,115>>                                        \* "steps"
S_cfg == <<99,102,103>>                                                   \* "cfg"
S_cfg_scale == <<99,102,103,95,115,99,97,108,101>>                        \* "cfg_scale"
S_sampler_name == <<115,97,109,112,108,101,114,95,110,97,109,101>>        \* "sampler_name"
S_sampler == <<115,97,109,112,108,101,114>>                               \* "sampler"
S_scheduler == <<115,99,104,101,100,117,108,101,114>>                     \* "scheduler"
S_denoise == <<100,101,110,111,105,115,101>>                              \* "denoise"
S_positive == <<112,111,115,105,116,105,118,101>>                         \* "positive"
S_negative == <<110,101,103,97,116,105,118,101>>                          \* "negative"
S_text == <<116,101,120,116>>                                             \* "text"
S_text_g == <<116,101,120,116,95,103>>                                    \* "text_g"
S_text_l == <<116,101,120,116,95,108>>                                    \* "text_l"
S_generator == <<103,101,110,101,114,97,116,111,114>>                     \* "generator"
S_ComfyUI == <<67,111,109,102,121,85,73>>                                 \* "ComfyUI"
S_workflow == <<119,111,114,107,102,108,111,119>>                         \* "workflow"
S_objectObject == <<91,111,98,106,101,99,116,32,79,98,106,101,99,116,93>> \* "[object Object]"
S_undefined == <<117,110,100,101,102,105,110,101,100>>                    \* "undefined"
S_null == <<110,117,108,108>>                                             \* "null"
S_true == <<116,114,117,101>>                                             \* "true"
S_false == <<102,97,108,115,101>>                                         \* "false"
S_length == <<108,101,110,103,116,104>>                                   \* "length"

IsDigit(c) == c \in 48..57

RECURSIVE DigitsValue(_)
DigitsValue(d) ==
    IF d = <<>> THEN 0 ELSE 10 * DigitsValue(SubSeq(d, 1, Len(d) - 1)) + (d[Len(d)] - 48)

RECURSIVE NatToString(_)
NatToString(n) ==
    IF n < 10 THEN <<48 + n>> ELSE Append(NatToString(n \div 10), 48 + (n % 10))

\* A property key that is an array index ("0", "7", "12"): such keys come
\* first, in ascending order, in the property order of an object.
IsIndexKey(k) ==
    /\ k # <<>>
    /\ \A i \in 1..Len(k) : IsDigit(k[i])
    /\ (Len(k) = 1 \/ k[1] # 48)
    /\ Len(k) <= 9

KeyIndexOf(o, k) == MinOr({i \in 1..Len(o) : o[i][1] = k}, 0)

ObjHas(o, k) == KeyIndexOf(o, k) > 0

\* the value of the property at position i of o (0: no such property)
ValueAt(o, i) == IF i > 0 THEN o[i][2] ELSE Undefined

ObjGet(o, k) == ValueAt(o, KeyIndexOf(o, k))

\* a new property after the first n properties of o
InsertAfter(o, n, k, v) == SubSeq(o, 1, n) \o <<<<k, v>>>> \o SubSeq(o, n + 1, Len(o))

\* o[k] = v where position i holds k (0: a new property)
ObjSetAt(o, i, k, v) ==
    IF i > 0 THEN [o EXCEPT ![i] = <<k, v>>]
    ELSE IF IsIndexKey(k)
         THEN InsertAfter(o, Cardinality({j \in 1..Len(o) :
                                IsIndexKey(o[j][1]) /\ DigitsValue(o[j][1]) < DigitsValue(k)}),
                          k, v)
         ELSE Append(o, <<k, v>>)

\* o[k] = v
ObjSet(o, k, v) == ObjSetAt(o, KeyIndexOf(o, k), k, v)

RECURSIVE ObjAssign(_, _)
ObjAssign(o, more) ==
    IF more = <<>> THEN o
    ELSE ObjAssign(ObjSet(o, more[1][1], more[1][2]), Tail(more))

\* x[k] for a value x: own properties of objects, elements and length of arrays
Prop(x, k) ==
    CASE x.t = "obj" -> ObjGet(x.v, k)
      [] x.t = "arr" ->
            IF k = S_length THEN Num(Len(x.v))
            ELSE IF IsIndexKey(k) /\ DigitsValue(k) < Len(x.v) THEN x.v[DigitsValue(k) + 1]
            ELSE Undefined
      [] OTHER -> Undefined

\* String(x)
RECURSIVE JsString(_)
RECURSIVE JoinValues(_)
JsString(x) ==
    CASE x.t = "undef" -> S_undefined
      [] x.t = "lit" -> (CASE x.v = "null" -> S_null [] x.v = "true" -> S_true [] OTHER -> S_false)
      [] x.t = "num" -> NatToString(x.v)
      [] x.t = "str" -> x.v
      [] x.t = "arr" -> JoinValues(x.v)
      [] OTHER -> S_objectObject
JoinValues(a) ==
    IF a = <<>> THEN <<>>
    ELSE (IF IsNull(a[1]) \/ IsUndefined(a[1]) THEN <<>> ELSE JsString(a[1]))
         \o (IF Len(a) = 1 THEN <<>> ELSE <<44>> \o JoinValues(Tail(a)))

\* -------------------------------------------------------------- JSON.parse
\* The grammar of ECMA-404 restricted to what the modelled inputs hold:
\* strings without escapes and numbers that are plain naturals.  A text that
\* would need the rest (a backslash, a sign, a fraction, an exponent) is
\* reported with outside = TRUE; no modelled input does.

JsonFail == [ok |-> FALSE, v |-> Undefined, pos |-> 0, outside |-> FALSE]
JsonOutside == [ok |-> FALSE, v |-> Undefined, pos |-> 0, outside |-> TRUE]
JsonOk(x, p) == [ok |-> TRUE, v |-> x, pos |-> p, outside |-> FALSE]

IsJsonWs(c) == c \in {9, 10, 13, 32}
SkipJsonWs(s, i) == Min({j \in i..Len(s) : j = Len(s) \/ ~IsJsonWs(At(s, j))})

\* the string whose characters are body and whose closing quote is at q
JsonStringOf(body, q) ==
    IF \E k \in 1..Len(body) : body[k] = 92 THEN JsonOutside
    ELSE IF \E k \in 1..Len(body) : body[k] < 32 THEN JsonFail
    ELSE JsonOk(Str(body), q + 1)

\* the string opened at i, its closing quote at q (-1: none)
JsonStringTo(s, i, q) == IF q < 0 THEN JsonFail ELSE JsonStringOf(Slice(s, i + 1, q), q)

JsonString(s, i) == JsonStringTo(s, i, IndexOfFrom(s, <<34>>, i + 1))

\* the number whose digits are at i..j-1
JsonNumberTo(s, i, j) ==
    IF j < Len(s) /\ At(s, j) \in {46, 69, 101} THEN JsonOutside
    ELSE JsonOk(Num(DigitsValue(Slice(s, i, j))), j)

JsonNumber(s, i) ==
    JsonNumberTo(s, i, IF At(s, i) = 48 THEN i + 1
                       ELSE Min({e \in (i + 1)..Len(s) : e = Len(s) \/ ~IsDigit(At(s, e))}))

JsonLiteral(s, i) ==
    IF StartsAt(s, i, S_true) THEN JsonOk([t |-> "lit", v |-> "true"], i + 4)
    ELSE IF StartsAt(s, i, S_false) THEN JsonOk([t |-> "lit", v |-> "false"], i + 5)
    ELSE IF StartsAt(s, i, S_null) THEN JsonOk(JNull, i + 4)
    ELSE JsonFail

RECURSIVE JsonValue(_, _)
RECURSIVE JsonMembers(_, _, _)
RECURSIVE JsonElements(_, _, _)

\* after a member, at e: the object o ends, or another member follows
JsonAfterMember(s, o, e) ==
    IF e >= Len(s) THEN JsonFail
    ELSE IF At(s, e) = 125 THEN JsonOk(Obj(o), e + 1)
    ELSE IF At(s, e) = 44 THEN JsonMembers(s, SkipJsonWs(s, e + 1), o)
    ELSE JsonFail

\* the member of key k whose value was read as x
JsonMemberOf(s, o, k, x) ==
    IF ~x.ok THEN x ELSE JsonAfterMember(s, ObjSet(o, k, x.v), SkipJsonWs(s, x.pos))

\* the colon at c after the key k, and the member's value
JsonMemberValue(s, o, k, c) ==
    IF c >= Len(s) \/ At(s, c) # 58 THEN JsonFail
    ELSE JsonMemberOf(s, o, k, JsonValue(s, c + 1))

\* the member whose key was read as k
JsonMemberAfterKey(s, o, k) ==
    IF ~k.ok THEN k ELSE JsonMemberValue(s, o, k.v.v, SkipJsonWs(s, k.pos))

\* members of an object from position i (at a key), o the members read so far
JsonMembers(s, i, o) ==
    IF i >= Len(s) \/ At(s, i) # 34 THEN JsonFail
    ELSE JsonMemberAfterKey(s, o, JsonString(s, i))

\* after an element, at e: the array a ends, or another element follows
JsonAfterElement(s, a, e) ==
    IF e >= Len(s) THEN JsonFail
    ELSE IF At(s, e) = 93 THEN JsonOk(Arr(a), e + 1)
    ELSE IF At(s, e) = 44 THEN JsonElements(s, e + 1, a)
    ELSE JsonFail

\* the element that was read as x
JsonElementOf(s, a, x) ==
    IF ~x.ok THEN x ELSE JsonAfterElement(s, Append(a, x.v), SkipJsonWs(s, x.pos))

\* elements of an array from position i, a the elements read so far
JsonElements(s, i, a) == JsonElementOf(s, a, JsonValue(s, i))

\* after "{" and white space, at j
JsonObject(s, j) ==
    IF j < Len(s) /\ At(s, j) = 125 THEN JsonOk(Obj(<<>>), j + 1)
    ELSE JsonMembers(s, j, <<>>)

\* after "[" and white space, at j
JsonArray(s, j) ==
    IF j < Len(s) /\ At(s, j) = 93 THEN JsonOk(Arr(<<>>), j + 1)
    ELSE JsonElements(s, j, <<>>)

\* the value that starts at i with the character c
JsonValueOf(s, i, c) ==
    CASE c = 34 -> JsonString(s, i)
      [] IsDigit(c) -> JsonNumber(s, i)
      [] c = 45 -> JsonOutside
      [] c = 123 -> JsonObject(s, SkipJsonWs(s, i + 1))
      [] c = 91 -> JsonArray(s, SkipJsonWs(s, i + 1))
      [] OTHER -> JsonLiteral(s, i)

JsonValueAt(s, i) == IF i >= Len(s) THEN JsonFail ELSE JsonValueOf(s, i, At(s, i))

JsonValue(s, i0) == JsonValueAt(s, SkipJsonWs(s, i0))

\* r when nothing but white space follows it
JsonWhole(s, r) == IF r.ok /\ SkipJsonWs(s, r.pos) # Len(s) THEN JsonFail ELSE r

\* JSON.parse(s): ok is FALSE where it throws SyntaxError
JsonParse(s) == JsonWhole(s, JsonValue(s, 0))

\* -------------------------------------------------------------- normalizer

\* txt.split(/\r?\n/)
RECURSIVE SplitLines(_)

\* the lines of txt whose first line feed is at n (-1: none)
SplitAt(txt, n) ==
    IF n < 0 THEN <<txt>>
    ELSE <<Slice(txt, 0, IF n > 0 /\ At(txt, n - 1) = 13 THEN n - 1 ELSE n)>>
         \o SplitLines(Slice(txt, n + 1, Len(txt)))

SplitLines(txt) == SplitAt(txt, IndexOf(txt, <<10>>))

NoKeyValue == [found |-> FALSE, m1 |-> <<>>, m2 |-> <<>>]

\* (.*)$ : "." spans no line terminator
KeyValueOf(m1, m2) ==
    IF \E k \in 1..Len(m2) : IsLineTerminator(m2[k]) THEN NoKeyValue
    ELSE [found |-> TRUE, m1 |-> m1, m2 |-> m2]

\* \s*(.*) on what follows the colon
KeyValueAfter(m1, after) ==
    KeyValueOf(m1, Slice(after, SkipWhiteSpace(after, 0), Len(after)))

\* the match for the first colon at c (-1: none)
KeyValueAt(ln, c) ==
    IF c < 1 THEN NoKeyValue
    ELSE KeyValueAfter(Slice(ln, 0, c), Slice(ln, c + 1, Len(ln)))

\* ln.match(/^([^:]+):\s*(.*)$/): the key is what precedes the first colon,
\* the value what follows the white space after it, and "." spans no
\* line terminator.
MatchKeyValue(ln) == KeyValueAt(ln, IndexOf(ln, <<58>>))

\* if (m) out[m[1].trim()] = m[2].trim()
SettingLine(out, m) ==
    IF m.found THEN ObjSet(out, trim(m.m1), Str(trim(m.m2))) ELSE out

RECURSIVE SettingLines(_, _)
SettingLines(out, lines) ==
    IF lines = <<>> THEN out
    ELSE SettingLines(SettingLine(out, MatchKeyValue(Head(lines))), Tail(lines))

\* k.replace(/\s+/g, "_") for the four keys of the loop
PromptKeys == <<S_prompt, S_negative_prompt, S_Prompt, S_NegativePrompt>>
UnderscoreKey(k) == [i \in 1..Len(k) |-> IF k[i] = 32 THEN 95 ELSE k[i]]

\* if (raw[k]) out[k.replace(/\s+/g, "_")] = raw[k], v being raw[k]
CopyPromptKey(out, k, v) == IF Truthy(v) THEN ObjSet(out, UnderscoreKey(k), v) ELSE out

RECURSIVE CopyPromptKeys(_, _, _)
CopyPromptKeys(out, rw, keys) ==
    IF keys = <<>> THEN out
    ELSE CopyPromptKeys(CopyPromptKey(out, Head(keys), ObjGet(rw, Head(keys))),
                        rw, Tail(keys))

LooksLikeJson(t) ==
    /\ t # <<>>
    /\ \/ t[1] = 123 /\ t[Len(t)] = 125
       \/ t[1] = 91 /\ t[Len(t)] = 93

\* try { out[k + "_json"] = JSON.parse(t) } catch { }, r being the parse
JsonValueParsed(out, k, r) == IF r.ok THEN ObjSet(out, k \o S_json, r.v) ELSE out

\* the entry of key k whose trimmed text is t
JsonValueOfEntry(out, k, t) ==
    IF LooksLikeJson(t) THEN JsonValueParsed(out, k, JsonParse(t)) ELSE out

RECURSIVE JsonValues(_, _)
JsonValues(out, entries) ==
    IF entries = <<>> THEN out
    ELSE JsonValues(JsonValueOfEntry(out, entries[1][1], trim(entries[1][2].v)),
                    Tail(entries))

\* Object.values(g) / Object.keys(g) of an object or an array
ValuesOf(g) == IF g.t = "obj" THEN [i \in 1..Len(g.v) |-> g.v[i][2]] ELSE g.v
KeysOf(g) ==
    IF g.t = "obj" THEN [i \in 1..Len(g.v) |-> g.v[i][1]]
    ELSE [i \in 1..Len(g.v) |-> NatToString(i - 1)]

StartsWithText(s, p) == StartsAt(s, 0, p)
EndsWithText(s, p) == Len(s) >= Len(p) /\ StartsAt(s, Len(s) - Len(p), p)

IsNode(n) == n.t \in {"obj", "arr"} /\ IsStr(Prop(n, S_class_type))

HasNode(nodes) == \E i \in 1..Len(nodes) : IsNode(nodes[i])

\* pushIfGraph: the graphs g that are pushed
IsGraph(g) == g.t \in {"obj", "arr"} /\ HasNode(ValuesOf(g))

\* typeof c === "string" && c.startsWith("KSampler"), c being n.class_type
IsSamplerClass(c) == IsStr(c) /\ StartsWithText(c.v, S_KSampler)

IsSampler(n) == IsSamplerClass(Prop(n, S_class_type))

\* inputs || {}
OrEmpty(x) == IF Truthy(x) THEN x ELSE Obj(<<>>)

\* the text of a node whose inputs hold text, text_g and text_l
TextOfInputs(text, g, l) ==
    IF IsStr(text) THEN text
    ELSE IF IsStr(g) /\ IsStr(l) THEN Str(g.v \o <<32>> \o l.v)
    ELSE IF IsStr(g) THEN g
    ELSE IF IsStr(l) THEN l
    ELSE Undefined

TextOfNodeInputs(inp) ==
    TextOfInputs(Prop(inp, S_text), Prop(inp, S_text_g), Prop(inp, S_text_l))

TextOfNode(node) ==
    IF ~Truthy(node) THEN Undefined ELSE TextOfNodeInputs(OrEmpty(Prop(node, S_inputs)))

resolveText(nodes, conn) ==
    IF ~Truthy(conn) THEN Undefined
    ELSE TextOfNode(Prop(nodes, JsString(IF conn.t = "arr" THEN Prop(conn, <<48>>) ELSE conn)))

\* if (v !== undefined) out[k] = v
CopyInput(out, k, v) == IF ~IsUndefined(v) THEN ObjSet(out, k, v) ELSE out

RECURSIVE CopyInputs(_, _, _)
CopyInputs(out, inputs, pairs) ==
    IF pairs = <<>> THEN out
    ELSE CopyInputs(CopyInput(out, pairs[1][2], Prop(inputs, pairs[1][1])),
                    inputs, Tail(pairs))

\* if (v) out[k] = v
SetIfTruthy(out, k, v) == IF Truthy(v) THEN ObjSet(out, k, v) ELSE out

\* the fields taken from the sampler's inputs
SamplerFields(graph, inputs) ==
    SetIfTruthy(
        SetIfTruthy(
            CopyInputs(<<<<S_generator, Str(S_ComfyUI)>>>>, inputs,
                << <<S_seed, S_seed>>, <<S_steps, S_steps>>, <<S_cfg, S_cfg_scale>>,
                   <<S_sampler_name, S_sampler>>, <<S_scheduler, S_scheduler>>,
                   <<S_denoise, S_denoise>> >>),
            S_prompt, resolveText(graph, Prop(inputs, S_positive))),
        S_negative_prompt, resolveText(graph, Prop(inputs, S_negative)))

NotExtracted == [found |-> FALSE, out |-> <<>>]

\* hits: the positions of the sampler nodes
ExtractedFromSampler(graph, nodes, hits) ==
    IF hits = {} THEN NotExtracted
    ELSE [found |-> TRUE,
          out |-> SamplerFields(graph, OrEmpty(Prop(nodes[Min(hits)], S_inputs)))]

ExtractedFromNodes(graph, nodes) ==
    ExtractedFromSampler(graph, nodes, {i \in 1..Len(nodes) : IsSampler(nodes[i])})

\* found is FALSE when the graph has no sampler (the code returns null)
extractFromComfyPromptGraph(graph) == ExtractedFromNodes(graph, ValuesOf(graph))

\* if (n && n.id !== undefined) map[String(n.id)] = n
NodeById(map, n, id) ==
    IF Truthy(n) /\ ~IsUndefined(id) THEN ObjSet(map, JsString(id), n) ELSE map

\* workflow.nodes as an id -> node map
RECURSIVE NodesById(_, _)
NodesById(map, ns) ==
    IF ns = <<>> THEN map
    ELSE NodesById(NodeById(map, Head(ns), Prop(Head(ns), S_id)), Tail(ns))

\* pushIfGraph(g)
PushIfGraph(g) == IF Truthy(g) /\ IsGraph(g) THEN <<g>> ELSE <<>>

\* the graphs pushed for the entries of parsed whose key ends in "_json"
RECURSIVE EmbeddedGraphs(_)
EmbeddedGraphs(entries) ==
    IF entries = <<>> THEN <<>>
    ELSE (IF EndsWithText(entries[1][1], S_json) /\ entries[1][2].t \in {"obj", "arr"}
          THEN PushIfGraph(Prop(entries[1][2], S_prompt))
               \o PushIfGraph(Prop(entries[1][2], S_workflow))
          ELSE <<>>) \o EmbeddedGraphs(Tail(entries))

RECURSIVE FirstExtracted(_)

\* if (extracted) return extracted, e being what was extracted
ExtractedOr(e, others) == IF e.found THEN e ELSE FirstExtracted(others)

FirstExtracted(candidates) ==
    IF candidates = <<>> THEN NotExtracted
    ELSE ExtractedOr(extractFromComfyPromptGraph(Head(candidates)), Tail(candidates))

\* the graph made of workflow.nodes, where it is one
WorkflowGraph(wf) ==
    IF Truthy(wf) /\ wf.t \in {"obj", "arr"} /\ Prop(wf, S_nodes).t = "arr"
    THEN PushIfGraph(Obj(NodesById(<<>>, Prop(wf, S_nodes).v)))
    ELSE <<>>

extractComfy(parsed) ==
    FirstExtracted(PushIfGraph(ObjGet(parsed, S_prompt_json))
                   \o WorkflowGraph(ObjGet(parsed, S_workflow_json))
                   \o EmbeddedGraphs(parsed))

\* what the "parameters" branch puts into out, lines being txt.split(/\r?\n/)
ParameterFields(rw, p, lines) ==
    CopyPromptKeys(
        SettingLines(<<<<S_parameters_raw, p>>, <<S_prompt, Str(lines[1])>>>>, Tail(lines)),
        rw, PromptKeys)

\* out before the ComfyUI fields, p being raw["parameters"]
ParsedFields(rw, p) ==
    JsonValues(IF Truthy(p) THEN ParameterFields(rw, p, SplitLines(p.v)) ELSE <<>>, rw)

\* if (comfy) Object.assign(out, comfy)
AssignComfy(out, comfy) == IF comfy.found THEN ObjAssign(out, comfy.out) ELSE out

WithComfy(out) == AssignComfy(out, extractComfy(out))

\* rw: the own properties <<key, Str(text)>> of the raw record, in order
normalizeKnownFields(rw) == WithComfy(ParsedFields(rw, ObjGet(rw, S_parameters)))

\* ------------------------------------------------ selecting a parameters block

S_sd_metadata == <<115,100,45,109,101,116,97,100,97,116,97>>              \* "sd-metadata"
S_sd_metadata_us == <<115,100,95,109,101,116,97,100,97,116,97>>            \* "sd_metadata"
S_Parameters == <<80,97,114,97,109,101,116,101,114,115>>                  \* "Parameters"
S_negativePrompt == <<110,101,103,97,116,105,118,101,80,114,111,109,112,116>> \* "negativePrompt"
S_Steps == <<83,116,101,112,115>>                                         \* "Steps"
S_Sampler == <<83,97,109,112,108,101,114>>                                \* "Sampler"
S_cfgScale == <<99,102,103,83,99,97,108,101>>                             \* "cfgScale"
S_CFG_scale == <<67,70,71,32,115,99,97,108,101>>                          \* "CFG scale"
S_Seed == <<83,101,101,100>>                                              \* "Seed"
S_Size == <<83,105,122,101>>                                              \* "Size"
S_width == <<119,105,100,116,104>>                                        \* "width"
S_Width == <<87,105,100,116,104>>                                         \* "Width"
S_height == <<104,101,105,103,104,116>>                                   \* "height"
S_Height == <<72,101,105,103,104,116>>                                    \* "Height"
S_model == <<109,111,100,101,108>>                                        \* "model"
S_Model == <<77,111,100,101,108>>                                         \* "Model"
S_hashes == <<104,97,115,104,101,115>>                                    \* "hashes"
S_quotedPrompt == <<34,112,114,111,109,112,116,34>>                       \* "\"prompt\""
S_quotedNegativePrompt == <<34,78,101,103,97,116,105,118,101,32,112,114,111,109,112,116,34>> \* "\"Negative prompt\""
S_quot == <<38,113,117,111,116,59>>                                       \* "&quot;"
S_apos == <<38,97,112,111,115,59>>                                        \* "&apos;"
S_amp == <<38,97,109,112,59>>                                             \* "&amp;"
S_lt == <<38,108,116,59>>                                                 \* "&lt;"
S_gt == <<38,103,116,59>>                                                 \* "&gt;"

\* /(^|[\r\n])[\t ]*<label>/i : where the leftmost match starts, or -1
SearchLabel(s, label) ==
    MinOr({p \in 0..Len(s) :
              \/ p = 0 /\ StartsAtCI(s, SkipBlanks(s, 0), label)
              \/ p < Len(s) /\ At(s, p) \in {10, 13}
                   /\ StartsAtCI(s, SkipBlanks(s, p + 1), label)},
          -1)

NEGATIVE_PROMPT_RE(s) == SearchLabel(s, NEGATIVE_PROMPT_LABEL) >= 0
HAS_STEPS_RE(s) == SearchLabel(s, K_Steps) >= 0
HAS_SAMPLER_RE(s) == SearchLabel(s, K_Sampler) >= 0
HAS_CFG_RE(s) == SearchLabel(s, K_CFGscale) >= 0
HAS_SEED_RE(s) == SearchLabel(s, K_Seed) >= 0
HAS_SIZE_RE(s) == SearchLabel(s, K_Size) >= 0

CountChar(s, c) == Cardinality({k \in 1..Len(s) : s[k] = c})
countChar(s, c) == CountChar(s, c)

\* a || b, a ?? b, a && b
OrV(a, b) == IF Truthy(a) THEN a ELSE b
Nullish(a, b) == IF IsUndefined(a) \/ IsNull(a) THEN b ELSE a
AndV(a, b) == IF Truthy(a) THEN b ELSE a

RECURSIVE JoinTexts(_, _)
JoinTexts(ts, sep) ==
    IF ts = <<>> THEN <<>>
    ELSE IF Len(ts) = 1 THEN ts[1]
    ELSE ts[1] \o sep \o JoinTexts(Tail(ts), sep)

\* the value of a parse, or null where JSON.parse throws
ParsedOrNull(r) == IF r.ok THEN r.v ELSE JNull

\* the payload between the first "{" at s and the last "}" at e
InnerPayload(text, s, e) ==
    IF s # -1 /\ e # -1 /\ e > s THEN ParsedOrNull(JsonParse(Slice(text, s, e + 1)))
    ELSE JNull

\* direct: JSON.parse(text)
DirectOrInner(text, direct) ==
    IF direct.ok THEN direct.v
    ELSE InnerPayload(text, IndexOf(text, <<123>>), LastIndexOfFrom(text, <<125>>, Len(text)))

tryParseJsonPayload(text) == DirectOrInner(text, JsonParse(text))

\* parts of the settings line: "<label> <v>" when v is not undefined / is truthy
IfDefined(label, v) ==
    IF ~IsUndefined(v) THEN <<label \o <<32>> \o JsString(v)>> ELSE <<>>
IfTruthy(label, v) ==
    IF Truthy(v) THEN <<label \o <<32>> \o JsString(v)>> ELSE <<>>
SizePart(width, height) ==
    IF Truthy(width) /\ Truthy(height)
    THEN <<K_Size \o <<32>> \o JsString(width) \o <<120>> \o JsString(height)>>
    ELSE <<>>

NegativeLine(neg) ==
    IF Truthy(neg) THEN NEGATIVE_PROMPT_LABEL \o <<32>> \o JsString(neg)
    ELSE NEGATIVE_PROMPT_LABEL

SettingsTail(md) ==
    IfDefined(K_Steps, Nullish(Prop(md, S_steps), Prop(md, S_Steps)))
    \o IfTruthy(K_Sampler, OrV(Prop(md, S_sampler), Prop(md, S_Sampler)))
    \o IfDefined(K_CFGscale,
                 Nullish(Prop(md, S_cfgScale), Nullish(Prop(md, S_cfg), Prop(md, S_CFG_scale))))
    \o IfDefined(K_Seed, Nullish(Prop(md, S_seed), Prop(md, S_Seed)))
    \o SizePart(Nullish(Prop(md, S_width), Prop(md, S_Width)),
                Nullish(Prop(md, S_height), Prop(md, S_Height)))
    \o IfTruthy(K_Model,
                Nullish(Prop(md, S_model),
                        Nullish(Prop(md, S_Model),
                                AndV(Prop(md, S_hashes), Prop(Prop(md, S_hashes), S_model)))))

\* the lines joined: prompt, negative line, and the settings when there are any
ForgedLines(prompt, negLine, tail) ==
    trim(JoinTexts(<<trim(JsString(prompt)), negLine>>
                   \o (IF tail # <<>> THEN <<JoinTexts(tail, <<44, 32>>)>> ELSE <<>>),
                   <<10>>))

\* returns the text, or Null
forgeMetadataToParameters(md) ==
    IF ~Truthy(md) \/ ~IsObjectType(md) THEN Null
    ELSE ForgedLines(OrV(Prop(md, S_prompt), OrV(Prop(md, S_Prompt), Str(<<>>))),
                     NegativeLine(OrV(Prop(md, S_negativePrompt),
                                      OrV(Prop(md, S_NegativePrompt),
                                          OrV(Prop(md, S_negative_prompt), Str(<<>>))))),
                     SettingsTail(md))

\* forged || obj["parameters"], as a value
ForgedOr(forged, obj) ==
    IF forged # Null /\ forged # <<>> THEN Str(forged) ELSE Prop(obj, S_parameters)

\* forgeMetadataToParameters(md) || obj["parameters"], as a value
ForgeOrParameters(obj) ==
    ForgedOr(forgeMetadataToParameters(
                 OrV(Prop(obj, S_sd_metadata), OrV(Prop(obj, S_sd_metadata_us), obj))),
             obj)

\* the heuristics of interpretSdText for a text that gave no JSON text
PlainSdText(fixed) ==
    IF NEGATIVE_PROMPT_RE(fixed) \/ HAS_STEPS_RE(fixed) THEN fixed
    ELSE IF CountChar(fixed, 44) >= 2 \/ Len(fixed) > 80 THEN fixed
    ELSE Null

\* asText: what the parsed object gave
SdTextFrom(fixed, asText) ==
    IF Truthy(asText) /\ IsStr(asText) THEN asText.v ELSE PlainSdText(fixed)

\* obj: tryParseJsonPayload(fixed)
SdTextOfPayload(fixed, obj) ==
    IF obj.t = "obj" THEN SdTextFrom(fixed, ForgeOrParameters(obj)) ELSE PlainSdText(fixed)

SdTextOfFixed(fixed) == SdTextOfPayload(fixed, tryParseJsonPayload(fixed))

\* returns the text, or Null
interpretSdText(text) ==
    IF text = Null \/ text = <<>> THEN Null
    ELSE SdTextOfFixed(maybeFixUtf16EndianMisdecode(text))

CountNonBlank(lines) == Cardinality({k \in 1..Len(lines) : trim(lines[k]) # <<>>})

NonBlankLines(s) == CountNonBlank(SplitLines(s))

\* the score of the markers that the lower-cased block includes
MarkerScore(lower) ==
    (IF Includes(lower, toLowerCase(NEGATIVE_PROMPT_LABEL)) THEN 5 ELSE 0)
    + (IF Includes(lower, toLowerCase(K_Steps)) THEN 4 ELSE 0)
    + (IF Includes(lower, toLowerCase(K_Sampler)) THEN 2 ELSE 0)
    + (IF Includes(lower, toLowerCase(K_CFGscale)) THEN 2 ELSE 0)
    + (IF Includes(lower, toLowerCase(K_Seed)) THEN 2 ELSE 0)
    + (IF Includes(lower, toLowerCase(K_Size)) THEN 2 ELSE 0)

\* the score of the number of lines that are not blank
LineScore(lines) ==
    IF lines = 3 THEN 3 ELSE IF lines = 2 THEN 2 ELSE IF lines >= 4 THEN 1 ELSE 0

scoreA1111Block(s) ==
    IF s = <<>> THEN 0
    ELSE MarkerScore(toLowerCase(s)) + LineScore(NonBlankLines(s))
         + (IF Len(s) > 50 /\ Len(s) < 4000 THEN 1 ELSE 0)

\* s.replace(/<pat>/g, rep) for a literal pattern
RECURSIVE ReplaceAll(_, _, _)

\* i: where pat first occurs in s (-1: nowhere)
ReplaceFrom(s, pat, rep, i) ==
    IF i < 0 THEN s
    ELSE Slice(s, 0, i) \o rep \o ReplaceAll(Slice(s, i + Len(pat), Len(s)), pat, rep)

ReplaceAll(s, pat, rep) == ReplaceFrom(s, pat, rep, IndexOf(s, pat))

htmlUnescape(s) ==
    ReplaceAll(ReplaceAll(ReplaceAll(ReplaceAll(ReplaceAll(s,
        S_quot, <<34>>), S_apos, <<39>>), S_amp, <<38>>), S_lt, <<60>>), S_gt, <<62>>)

\* for the key found at i: where "=" is looked for, where the opening quote
\* is looked for, and where the same quote closes (-1: nowhere)
AttributeEq(xml, key, i) == SkipWhiteSpace(xml, i + Len(key))
AttributeQuote(xml, key, i) == SkipWhiteSpace(xml, AttributeEq(xml, key, i) + 1)
ClosingQuote(xml, q) == IndexOfFrom(xml, <<At(xml, q)>>, q + 1)

\* the attribute opens its value with a quote at q
QuotedAt(xml, q) == q < Len(xml) /\ At(xml, q) \in {34, 39} /\ ClosingQuote(xml, q) >= 0

\* the attribute has "=" at e
AssignedAt(xml, e) ==
    e < Len(xml) /\ At(xml, e) = 61 /\ QuotedAt(xml, SkipWhiteSpace(xml, e + 1))

\* what is between the quote at q and the quote that closes it
QuotedValue(xml, q) == Slice(xml, q + 1, ClosingQuote(xml, q))

\* m[2] of the match at i (-1: no match)
AttributeValueAt(xml, key, i) ==
    IF i < 0 THEN Null ELSE QuotedValue(xml, AttributeQuote(xml, key, i))

\* xml.match(new RegExp(key + "\\s*=\\s*([\"'])(.*?)\\1", "is")): m[2] of the
\* leftmost match, or Null
MatchAttribute(xml, key) ==
    AttributeValueAt(xml, key,
        MinOr({i \in 0..Len(xml) :
                  StartsAtCI(xml, i, key) /\ AssignedAt(xml, AttributeEq(xml, key, i))},
              -1))

\* if (m && m[2]) out.push(htmlUnescape(m[2]))
PushAttribute(m2) == IF m2 # Null /\ m2 # <<>> THEN <<htmlUnescape(m2)>> ELSE <<>>

RECURSIVE AttributeValues(_, _)
AttributeValues(xml, keys) ==
    IF keys = <<>> THEN <<>>
    ELSE PushAttribute(MatchAttribute(xml, Head(keys))) \o AttributeValues(xml, Tail(keys))

extractFromXmpAttributes(xml) ==
    AttributeValues(xml, <<S_sd_metadata, S_sd_metadata_us, S_parameters, S_Parameters>>)

\* a looksGarbled that holds of every text that is not empty
looksGarbledAlways(s) == s # <<>>

looksGarbled(s) ==
    /\ s # <<>>
    /\ \/ \E k \in 1..Len(s) : s[k] = 65533
       \/ \E k \in 1..Len(s) : s[k] = 0
       \/ /\ 2 * Cardinality({k \in 1..Len(s) : s[k] > 126}) > Len(s)
          /\ 10 * Cardinality({k \in 1..Len(s) : s[k] \in 65..90 \/ s[k] \in 97..122}) < Len(s)

extractParametersBlock(text) == BlockFromLabel(text, IndexOf(text, NEGATIVE_PROMPT_LABEL))

\* the text up to the end of the settings line picked, or Null
UpToSettingsLine(text, picked) ==
    IF ~picked.found THEN Null ELSE Slice(text, 0, picked.end)

extractBySettingsLineOnly(text) == UpToSettingsLine(text, pickSettingsLineWithIndex(text))

\* a || b for texts that may be Null
OrText(a, b) == IF a # Null /\ a # <<>> THEN a ELSE b

\* interp: interpretSdText(t); its block, or all of it
InterpretedBlock(interp) ==
    IF interp # Null /\ interp # <<>> THEN OrText(extractA1111BlockFromText(interp), interp)
    ELSE Null

\* primary: extractA1111BlockFromText(t)
PrimaryOrInterpreted(t, primary) ==
    IF primary # Null /\ primary # <<>> THEN primary
    ELSE InterpretedBlock(interpretSdText(t))

\* the block a text contributes to the selection, or Null
CandidateBlock(t) ==
    IF t = <<>> THEN Null ELSE PrimaryOrInterpreted(t, extractA1111BlockFromText(t))

NoBest == [found |-> FALSE, text |-> <<>>, score |-> 0]

\* !best || sc >= best.score: a selection in which the later of two equal
\* scores wins
ReplacesOnTie(sc, best) == ~best.found \/ sc >= best.score

\* !best || sc > best.score
Replaces(sc, best) == ~best.found \/ sc > best.score

\* if (!best || sc > best.score) best = { text: b, score: sc }
BestOfScored(b, sc, best) ==
    IF Replaces(sc, best) THEN [found |-> TRUE, text |-> b, score |-> sc] ELSE best

\* best after the candidate block b (Null: the text gave none)
BestAfter(b, best) == IF b = Null THEN best ELSE BestOfScored(b, scoreA1111Block(b), best)

RECURSIVE SelectLoop(_, _)
SelectLoop(texts, best) ==
    IF texts = <<>> THEN best
    ELSE SelectLoop(Tail(texts), BestAfter(CandidateBlock(Head(texts)), best))

\* best ? best.text : null
TextOfBest(best) == IF best.found THEN best.text ELSE Null

\* returns the text, or Null
selectBestParametersFromTexts(texts) == TextOfBest(SelectLoop(texts, NoBest))

\* ---------------------------------------------------------- byte decoders

REPLACEMENT == 65533                    \* U+FFFD
IsContinuation(x) == x \in 128..191

\* the code units of a code point
CodeUnits(cp) ==
    IF cp < 65536 THEN <<cp>>
    ELSE <<55296 + ((cp - 65536) \div 1024), 56320 + ((cp - 65536) % 1024)>>

\* The WHATWG utf-8 decoder from byte i (1-based) of b: a lead byte wants
\* needed continuation bytes, the first of them within lower..upper; a
\* sequence that is cut short gives one U+FFFD and the byte that cut it is
\* read again.
Utf8Needed(x) ==
    IF x \in 194..223 THEN 1 ELSE IF x \in 224..239 THEN 2 ELSE IF x \in 240..244 THEN 3 ELSE 0
Utf8Lower(x) == IF x = 224 THEN 160 ELSE IF x = 240 THEN 144 ELSE 128
Utf8Upper(x) == IF x = 237 THEN 159 ELSE IF x = 244 THEN 143 ELSE 191

\* the byte at i + d continues the sequence of the lead byte at i
Utf8Continues(b, i, d) ==
    /\ i + d <= Len(b)
    /\ IF d = 1 THEN b[i + 1] \in Utf8Lower(b[i])..Utf8Upper(b[i])
       ELSE IsContinuation(b[i + d])

\* how many of the bytes after the lead byte at i continue its sequence
Utf8Valid(b, i) ==
    Cardinality({d \in 1..Utf8Needed(b[i]) : \A e \in 1..d : Utf8Continues(b, i, e)})

Utf8CodePoint(b, i) ==
    CASE Utf8Needed(b[i]) = 1 -> (b[i] - 192) * 64 + (b[i + 1] - 128)
      [] Utf8Needed(b[i]) = 2 ->
            (b[i] - 224) * 4096 + (b[i + 1] - 128) * 64 + (b[i + 2] - 128)
      [] OTHER -> (b[i] - 240) * 262144 + (b[i + 1] - 128) * 4096
                    + (b[i + 2] - 128) * 64 + (b[i + 3] - 128)

\* the step for a lead byte at st.i that wants needed bytes and has valid
Utf8Sequence(b, st, needed, valid) ==
    IF valid = needed
    THEN [i |-> st.i + 1 + needed, acc |-> st.acc \o CodeUnits(Utf8CodePoint(b, st.i))]
    ELSE [i |-> st.i + 1 + valid, acc |-> Append(st.acc, REPLACEMENT)]

\* the step for the byte x at st.i
Utf8StepOn(b, st, x) ==
    IF x < 128 THEN [i |-> st.i + 1, acc |-> Append(st.acc, x)]
    ELSE IF Utf8Needed(x) = 0 THEN [i |-> st.i + 1, acc |-> Append(st.acc, REPLACEMENT)]
    ELSE Utf8Sequence(b, st, Utf8Needed(x), Utf8Valid(b, st.i))

Utf8Step(b, st) == Utf8StepOn(b, st, b[st.i])

Utf8Done(b, st) == st.i > Len(b)

\* the decoder's loop from st: it ends within n steps
RECURSIVE Utf8Run(_, _, _)
Utf8Run(b, st, n) ==
    IF n = 0 \/ Utf8Done(b, st) THEN st
    ELSE IF n = 1 THEN Utf8Step(b, st)
    ELSE Utf8Run(b, Utf8Run(b, st, n \div 2), n - n \div 2)

Utf8Loop(b) == Utf8Run(b, [i |-> 1, acc |-> <<>>], Len(b)).acc

\* new TextDecoder("utf-8").decode(b): a leading BOM is dropped
DecodeUtf8(b) ==
    Utf8Loop(IF StartsAt(b, 0, <<239, 187, 191>>) THEN Slice(b, 3, Len(b)) ELSE b)

\* strFromU8 of fflate: TextDecoder where the platform has one
strFromU8(b) == DecodeUtf8(b)

\* The index jis0208 of the Encoding Standard, for the pointers that the
\* buffers modelled here produce.  Any other pointer decodes to
\* UNLISTED_CHARACTER, which stands for "what the full index says".
UNLISTED_CHARACTER == 1114112
Jis0208Unmapped == {1021}
Jis0208 == (1169 :> 13069) @@ (1520 :> 33276) @@ (3265 :> 20013)
           @@ (5166 :> 24717) @@ (5167 :> 24807)

SjisTrail(y) == y \in 64..126 \/ y \in 128..252
SjisPointer(x, y) ==
    (x - (IF x < 160 THEN 129 ELSE 193)) * 188 + y - (IF y < 127 THEN 64 ELSE 65)

\* an error on the byte y after a lead byte: y is read again when it is ASCII
SjisError(y) == [out |-> REPLACEMENT, used |-> IF y < 128 THEN 1 ELSE 2]

\* what the pointer p gives, y being the second byte
SjisPointed(p, y) ==
    IF p \in 8836..10715 THEN [out |-> 57344 - 8836 + p, used |-> 2]
    ELSE IF p \in DOMAIN Jis0208 THEN [out |-> Jis0208[p], used |-> 2]
    ELSE IF p \in Jis0208Unmapped THEN SjisError(y)
    ELSE [out |-> UNLISTED_CHARACTER, used |-> 2]

\* what the lead byte x and the byte y after it put out, and whether y is
\* read again
SjisPair(x, y) ==
    IF ~SjisTrail(y) THEN SjisError(y) ELSE SjisPointed(SjisPointer(x, y), y)

IsSjisLead(x) == x \in 129..159 \/ x \in 224..252

\* the step that puts out r.out and reads r.used bytes
SjisPut(st, r) == [i |-> st.i + r.used, acc |-> Append(st.acc, r.out)]

\* the step for the byte x at st.i
SjisStepOn(b, st, x) ==
    IF x <= 128 THEN SjisPut(st, [out |-> x, used |-> 1])
    ELSE IF x \in 161..223 THEN SjisPut(st, [out |-> 65377 - 161 + x, used |-> 1])
    ELSE IF IsSjisLead(x)
         THEN IF st.i = Len(b) THEN SjisPut(st, [out |-> REPLACEMENT, used |-> 1])
              ELSE SjisPut(st, SjisPair(x, b[st.i + 1]))
    ELSE SjisPut(st, [out |-> REPLACEMENT, used |-> 1])

SjisStep(b, st) == SjisStepOn(b, st, b[st.i])

SjisDone(b, st) == st.i > Len(b)

\* the decoder's loop from st: it ends within n steps
RECURSIVE SjisRun(_, _, _)
SjisRun(b, st, n) ==
    IF n = 0 \/ SjisDone(b, st) THEN st
    ELSE IF n = 1 THEN SjisStep(b, st)
    ELSE SjisRun(b, SjisRun(b, st, n \div 2), n - n \div 2)

SjisLoop(b) == SjisRun(b, [i |-> 1, acc |-> <<>>], Len(b)).acc

\* new TextDecoder("shift_jis").decode(b)
DecodeShiftJis(b) == SjisLoop(b)
decodeShiftJIS(b) == DecodeShiftJis(b)

latin1FromU8(u) == u

decodeBytes(b, enc) ==
    CASE enc = "latin1" -> b
      [] enc = "shift_jis" -> DecodeShiftJis(b)
      [] enc = "utf-16" -> DecodeUtf16(b, TRUE)
      [] enc = "utf-16le" -> DecodeUtf16(b, TRUE)
      [] enc = "utf-16be" -> DecodeUtf16(b, FALSE)
      [] OTHER -> DecodeUtf8(b)

\* how many code units of s are in the set C
CountIn(s, C) == Cardinality({k \in 1..Len(s) : s[k] \in C})

Cjk == (19968..40959) \cup (13312..19903)
Kana == (12352..12543) \cup (12784..12799)
PrintableAscii == 32..126
Control == (0..31) \ {9, 10, 13}
Separator == {44, 58, 59}

\* scoreDecodedString(s) * 10: the score is a multiple of 0.1
scoreDecodedString10(s) ==
    IF s = <<>> THEN -10
    ELSE 50 * CountIn(s, Cjk) + 40 * CountIn(s, Kana) + 3 * CountIn(s, PrintableAscii)
         + 5 * CountIn(s, Separator)
         - 1000 * CountIn(s, {REPLACEMENT}) - 50 * CountIn(s, Control)

\* a lead byte at st.i with a trail byte after it is a pair
SjisPairStep(b, st) ==
    IF IsSjisLead(b[st.i]) /\ st.i < Len(b) /\ SjisTrail(b[st.i + 1])
    THEN [i |-> st.i + 2, pairs |-> st.pairs + 1]
    ELSE [i |-> st.i + 1, pairs |-> st.pairs]

\* the loop of looksLikeShiftJis from st: it ends within n steps
RECURSIVE SjisPairRun(_, _, _)
SjisPairRun(b, st, n) ==
    IF n = 0 \/ st.i > Len(b) THEN st
    ELSE IF n = 1 THEN SjisPairStep(b, st)
    ELSE SjisPairRun(b, SjisPairRun(b, st, n \div 2), n - n \div 2)

SjisPairs(b) == SjisPairRun(b, [i |-> 1, pairs |-> 0], Len(b)).pairs

looksLikeShiftJis(b) == 20 * SjisPairs(b) > Max({1, Len(b) \div 2})

\* the first candidate of the greatest score: Array.prototype.sort is stable
RECURSIVE FirstBest(_, _)
FirstBest(cands, best) ==
    IF cands = <<>> THEN best
    ELSE FirstBest(Tail(cands), IF Head(cands).score > best.score THEN Head(cands) ELSE best)

DecodeOrder(data) ==
    IF looksLikeShiftJis(data)
    THEN <<"shift_jis", "utf-8", "utf-16le", "utf-16be", "latin1">>
    ELSE <<"utf-8", "utf-16le", "utf-16be", "shift_jis", "latin1">>

\* a decoding with its score
Scored(s) == [text |-> s, score |-> scoreDecodedString10(s)]

RECURSIVE ScoredDecodings(_, _)
ScoredDecodings(data, list) ==
    IF list = <<>> THEN <<>>
    ELSE <<Scored(decodeBytes(data, Head(list)))>> \o ScoredDecodings(data, Tail(list))

BestDecoding(candidates) == FirstBest(Tail(candidates), Head(candidates)).text

decodeBest(data) == BestDecoding(ScoredDecodings(data, DecodeOrder(data)))

tryDecodeUTF8(u) == decodeBest(u)

countByte(u, v) == Cardinality({k \in 1..Len(u) : u[k] = v})

\* ------------------------------------------------------------ recovery scans

ScanWindowBefore == 4096
ScanWindowAfter == 8192
MetaWindowBefore == 1200
MetaWindowAfter == 2000

\* s.slice(a, b) for 0 <= a
JsSlice(s, a, b) ==
    IF Min({b, Len(s)}) <= Min({a, Len(s)}) THEN <<>>
    ELSE Slice(s, Min({a, Len(s)}), Min({b, Len(s)}))

indexOfBytes(hay, needle) == IndexOf(hay, needle)

\* the label in UTF-16: each character with a zero byte after (le) or before it
LabelBytes(le) ==
    [k \in 1..(2 * Len(NEGATIVE_PROMPT_LABEL)) |->
        IF (k % 2 = 1) = le THEN NEGATIVE_PROMPT_LABEL[(k + 1) \div 2] ELSE 0]

\* if (blk) return blk
BlockOrNull(b) == IF b # Null /\ b # <<>> THEN b ELSE Null

\* one branch of scanFileForSdText for the label found at idx: the block, or Null
ScanAround(u8, le, idx) ==
    IF idx < 0 THEN Null
    ELSE BlockOrNull(extractParametersBlock(
             DecodeUtf16(Slice(u8, Max({0, idx - ScanWindowBefore}),
                               Min({Len(u8), idx + ScanWindowAfter})), le)))

ScanNear(u8, le) == ScanAround(u8, le, indexOfBytes(u8, LabelBytes(le)))

\* a ?? b for texts that may be Null
IfNull(a, b) == IF a # Null THEN a ELSE b

scanFileForSdText(u8) == IfNull(ScanNear(u8, TRUE), ScanNear(u8, FALSE))

\* the brace loop: depth counts the open braces, end is set where it closes
BraceStep(text, st) ==
    IF At(text, st.i) = 123 THEN [i |-> st.i + 1, depth |-> st.depth + 1, end |-> 0]
    ELSE IF At(text, st.i) = 125
         THEN [i |-> st.i + 1, depth |-> st.depth - 1,
               end |-> IF st.depth = 1 THEN st.i + 1 ELSE 0]
    ELSE [i |-> st.i + 1, depth |-> st.depth, end |-> 0]

BraceDone(text, st) == st.i >= Len(text) \/ st.end > 0

RECURSIVE BraceRun(_, _, _)
BraceRun(text, st, n) ==
    IF n = 0 \/ BraceDone(text, st) THEN st
    ELSE IF n = 1 THEN BraceStep(text, st)
    ELSE BraceRun(text, BraceRun(text, st, n \div 2), n - n \div 2)

\* where the brace opened at i closes (the position after it), or 0
MatchBrace(text, startBrace) ==
    BraceRun(text, [i |-> startBrace, depth |-> 0, end |-> 0], Len(text)).end

\* if (asText) return asText
TruthyOrUndefined(x) == IF Truthy(x) THEN x ELSE Undefined

\* obj: JSON.parse(snippet)
MetaOfSnippet(obj) ==
    IF obj.ok THEN TruthyOrUndefined(ForgeOrParameters(obj.v)) ELSE Undefined

\* end: where the brace at startBrace closes
MetaBetween(text, startBrace, end) ==
    IF end > 0 THEN MetaOfSnippet(JsonParse(Slice(text, startBrace, end))) ELSE Undefined

MetaInBraces(text, startBrace, endBrace) ==
    IF startBrace # -1 /\ endBrace # -1
    THEN MetaBetween(text, startBrace, MatchBrace(text, startBrace))
    ELSE Undefined

\* the JSON branch for one key: the value returned, or Undefined to go on
MetaFromJson(text, idx) ==
    MetaInBraces(text, LastIndexOfFrom(text, <<123>>, idx), IndexOfFrom(text, <<125>>, idx))

\* end !== -1 ? end : (firstLineEnd !== -1 ? firstLineEnd : nidx + 2000)
WindowEnd(nidx, end, firstLineEnd) ==
    IF end # -1 THEN end
    ELSE IF firstLineEnd # -1 THEN firstLineEnd
    ELSE nidx + MetaWindowAfter

\* if (block && block.length > 0) return block.trim()
TrimmedBlock(block) == IF block # <<>> THEN Str(trim(block)) ELSE Undefined

MetaWindow(text, nidx, start) ==
    TrimmedBlock(JsSlice(text, start,
                         WindowEnd(nidx, IndexOfFrom(text, <<10, 10>>, nidx),
                                   IndexOfFrom(text, <<10>>, start))))

\* nidx: text.search(NEGATIVE_PROMPT_RE)
MetaAround(text, nidx) ==
    IF nidx >= 0 THEN MetaWindow(text, nidx, Max({0, nidx - MetaWindowBefore}))
    ELSE Undefined

\* the text branch for one key: the value returned, or Undefined to go on
MetaFromText(text) == MetaAround(text, SearchLabel(text, NEGATIVE_PROMPT_LABEL))

MetaKeys == <<S_sd_metadata, S_sd_metadata_us, S_quotedPrompt, S_quotedNegativePrompt,
              NEGATIVE_PROMPT_LABEL>>

RECURSIVE MetaLoop(_, _)

\* t: what the text branch gave for the key
MetaTextOr(text, keys, t) == IF ~IsUndefined(t) THEN t ELSE MetaLoop(text, Tail(keys))

\* j: what the JSON branch gave for the key
MetaJsonOr(text, keys, j) ==
    IF ~IsUndefined(j) THEN j ELSE MetaTextOr(text, keys, MetaFromText(text))

\* idx: text.indexOf(key)
MetaForKey(text, keys, idx) ==
    IF idx = -1 THEN MetaLoop(text, Tail(keys))
    ELSE MetaJsonOr(text, keys, MetaFromJson(text, idx))

MetaLoop(text, keys) ==
    IF keys = <<>> THEN JNull ELSE MetaForKey(text, keys, IndexOf(text, Head(keys)))

\* returns a value: the code returns whatever the JSON member holds
scanWholeFileForMeta(u8) == MetaLoop(DecodeUtf8(u8), MetaKeys)

\* extractA1111BlockFromText(text) || extractBySettingsLineOnly(text)
BlockOrSettingsLine(text) ==
    OrText(extractA1111BlockFromText(text), extractBySettingsLineOnly(text))

\* the candidate of a variant whose block is block
VariantOfBlock(block) ==
    IF block = Null \/ block = <<>> THEN NoBest
    ELSE [found |-> TRUE, text |-> block,
          score |-> scoreA1111Block(block) - (IF looksGarbled(block) THEN 5 ELSE 0)]

VariantOfText(text) ==
    IF text = <<>> THEN NoBest ELSE VariantOfBlock(BlockOrSettingsLine(text))

\* the block and score of one variant of scanWholeFileForUtf16A1111
Utf16Variant(u8, le) == VariantOfText(DecodeUtf16(u8, le))

\* best after the little-endian and then the big-endian variant
BestVariant(le, be) ==
    IF le.found /\ be.found THEN (IF be.score > le.score THEN be.text ELSE le.text)
    ELSE IF le.found THEN le.text
    ELSE IF be.found THEN be.text
    ELSE Null

scanWholeFileForUtf16A1111(u8) == BestVariant(Utf16Variant(u8, TRUE), Utf16Variant(u8, FALSE))

scanWholeFileForSjisA1111(u8) == BlockOrSettingsLine(DecodeShiftJis(u8))

\* a text or Null as a value
TextValue(t) == IF t = Null THEN JNull ELSE Str(t)

\* recoverParameters(u8, existing) for a garbled existing text
RecoverGarbled(u8) ==
    OrV(TextValue(scanFileForSdText(u8)),
        OrV(TextValue(scanWholeFileForUtf16A1111(u8)),
            OrV(TextValue(scanWholeFileForSjisA1111(u8)), JNull)))

\* recoverParameters(u8, null) with the JSON scan as the last step
RecoverAbsentJsonLast(u8) == OrV(RecoverGarbled(u8), scanWholeFileForMeta(u8))

\* recoverParameters(u8, null)
RecoverAbsent(u8) == OrV(scanWholeFileForMeta(u8), RecoverGarbled(u8))

\* existing: the text, or Null; returns a value
recoverParameters(u8, existing) ==
    IF existing = Null \/ existing = <<>> THEN RecoverAbsent(u8)
    ELSE IF ~looksGarbled(existing) THEN JNull
    ELSE RecoverGarbled(u8)

\* ------------------------------------------------------------- XMP chunks

S_encodingEq == <<101,110,99,111,100,105,110,103,61>>                     \* "encoding="

IsEncodingNameChar(c) == c \in 65..90 \/ c \in 97..122 \/ c \in 48..57 \/ c \in {95, 45}

\* where the name that starts at i + 10 ends, for "encoding=" found at i
EncodingNameEnd(s, i) ==
    Min({j \in (i + 10)..Len(s) : j = Len(s) \/ ~IsEncodingNameChar(At(s, j))})

\* the name is not empty and a quote follows it at e
EncodingNameClosed(s, i, e) == e > i + 10 /\ e < Len(s) /\ At(s, e) \in {34, 39}

\* m[1] of the match at i (-1: no match)
EncodingNameAt(s, i) == IF i < 0 THEN Null ELSE Slice(s, i + 10, EncodingNameEnd(s, i))

\* probe.match(/encoding=["']([A-Za-z0-9_\-]+)["']/i): m[1], or Null
MatchEncoding(s) ==
    EncodingNameAt(s,
        MinOr({i \in 0..Len(s) :
                  /\ StartsAtCI(s, i, S_encodingEq)
                  /\ i + 10 < Len(s) /\ At(s, i + 9) \in {34, 39}
                  /\ EncodingNameClosed(s, i, EncodingNameEnd(s, i))},
              -1))

\* enc: the lower-cased encoding name
DecodeNamed(data, enc) ==
    CASE enc = <<117,116,102,45,56>> -> DecodeUtf8(data)                            \* "utf-8"
      [] enc \in {<<117,116,102,45,49,54>>, <<117,116,102,45,49,54,108,101>>} ->      \* "utf-16", "utf-16le"
            DecodeUtf16(data, TRUE)
      [] enc = <<117,116,102,45,49,54,98,101>> -> DecodeUtf16(data, FALSE)          \* "utf-16be"
      [] enc \in {<<115,104,105,102,116,95,106,105,115>>,                           \* "shift_jis"
                  <<119,105,110,100,111,119,115,45,51,49,106>>,                     \* "windows-31j"
                  <<115,106,105,115>>} -> decodeShiftJIS(data)                       \* "sjis"
      [] OTHER -> Null

\* returns the text, or Null for an encoding it does not know
decodeByXmlEncoding(data, encAttr) == DecodeNamed(data, toLowerCase(encAttr))

\* the zero bytes at even and at odd offsets
ZeroEven(data) == Cardinality({k \in 1..Len(data) : k % 2 = 1 /\ data[k] = 0})
ZeroOdd(data) == Cardinality({k \in 1..Len(data) : k % 2 = 0 /\ data[k] = 0})

\* byAttr: the decoding by the declared encoding, or Null
ByAttributeOr(byAttr, best) == IF byAttr # Null THEN byAttr ELSE best

\* m1: the encoding that the best decoding declares, or Null
XmpByDeclared(data, best, m1) ==
    IF m1 # Null THEN ByAttributeOr(decodeByXmlEncoding(data, m1), best) ELSE best

XmpByBest(data, best) == XmpByDeclared(data, best, MatchEncoding(best))

decodeXmpChunk(data) ==
    IF StartsAt(data, 0, <<239, 187, 191>>) THEN strFromU8(Slice(data, 3, Len(data)))
    ELSE IF StartsAt(data, 0, <<254, 255>>) THEN DecodeUtf16(Slice(data, 2, Len(data)), FALSE)
    ELSE IF StartsAt(data, 0, <<255, 254>>) THEN DecodeUtf16(Slice(data, 2, Len(data)), TRUE)
    ELSE IF 5 * countByte(data, 0) > Max({1, Len(data)})
         THEN DecodeUtf16(data, ZeroOdd(data) >= ZeroEven(data))
    ELSE XmpByBest(data, decodeBest(data))

\* --------------------------------------------------------------------- EXIF

B_Exif == <<69, 120, 105, 102, 0, 0>>                                     \* "Exif\0\0"
B_ASCII == <<65, 83, 67, 73, 73>>                                         \* "ASCII"
B_UNICODE == <<85, 78, 73, 67, 79, 68, 69>>                               \* "UNICODE"
B_JIS == <<74, 73, 83>>                                                   \* "JIS"

TAG_ImageDescription == 270       \* 0x010E
TAG_ExifIFD == 34665              \* 0x8769
TAG_UserComment == 37510          \* 0x9286
TAG_XPComment == 40092            \* 0x9C9C
TAG_XPTitle == 40091              \* 0x9C9B

startsWith(a, b) == StartsAt(a, 0, b)

\* data[o] inside a bit operation: a read past the end counts as 0
ByteAt(data, o) == IF o >= 0 /\ o < Len(data) THEN data[o + 1] ELSE 0

u16(data, isLE, o) ==
    IF isLE THEN ByteAt(data, o) + 256 * ByteAt(data, o + 1)
    ELSE 256 * ByteAt(data, o) + ByteAt(data, o + 1)

u32(data, isLE, o) ==
    IF isLE THEN ByteAt(data, o) + 256 * ByteAt(data, o + 1)
                 + 65536 * ByteAt(data, o + 2) + 16777216 * ByteAt(data, o + 3)
    ELSE 16777216 * ByteAt(data, o) + 65536 * ByteAt(data, o + 1)
         + 256 * ByteAt(data, o + 2) + ByteAt(data, o + 3)

typeSize(typ) ==
    CASE typ \in {1, 2, 7} -> 1
      [] typ = 3 -> 2
      [] typ \in {4, 9} -> 4
      [] typ \in {5, 10} -> 8
      [] OTHER -> 1

\* the entry at e of tag tag, total bytes long, with its value at abs when
\* it does not fit the entry
IfdEntryOf(data, e, tag, total, abs) ==
    IF total <= 4 THEN [kept |-> TRUE, tag |-> tag, value |-> Slice(data, e + 8, e + 8 + total)]
    ELSE IF abs + total > Len(data) THEN [kept |-> FALSE, tag |-> tag, value |-> <<>>]
    ELSE [kept |-> TRUE, tag |-> tag, value |-> Slice(data, abs, abs + total)]

\* the entry at e of an IFD: kept is FALSE where the loop goes on without it
IfdEntry(data, isLE, e) ==
    IfdEntryOf(data, e, u16(data, isLE, e),
               typeSize(u16(data, isLE, e + 2)) * u32(data, isLE, e + 4),
               6 + u32(data, isLE, e + 8))

\* the first n entries of the IFD at off
IfdEntries(data, isLE, off, n) ==
    [i \in 1..n |-> IfdEntry(data, isLE, off + 2 + (i - 1) * 12)]

\* readIFD(off).tags: the entries read, in order
readIFD(data, isLE, off) ==
    IF off <= 0 \/ off + 2 > Len(data) THEN <<>>
    ELSE IfdEntries(data, isLE, off,
                    Min({u16(data, isLE, off), (Len(data) - off - 2) \div 12}))

\* tags[t]: the last entry of the tag that was kept
HasTag(tags, t) == \E i \in 1..Len(tags) : tags[i].kept /\ tags[i].tag = t
TagValue(tags, t) ==
    tags[Max({i \in 1..Len(tags) : tags[i].kept /\ tags[i].tag = t})].value

\* s.replace(/\u0000+/g, "")
StripNuls(s) == SelectSeq(s, LAMBDA c : c # 0)

\* s.replace(/\u0000+$/g, "")
StripTrailingNuls(s) == SubSeq(s, 1, MaxOr({k \in 1..Len(s) : s[k] # 0}, 0))

\* the part of scoreSdTextCandidate(s) that is a whole number
SdMarkerScore(s) ==
    (IF NEGATIVE_PROMPT_RE(s) THEN 5 ELSE 0)
    + (IF HAS_STEPS_RE(s) THEN 4 ELSE 0)
    + (IF HAS_SAMPLER_RE(s) THEN 2 ELSE 0)
    + (IF HAS_CFG_RE(s) THEN 2 ELSE 0)
    + (IF HAS_SEED_RE(s) THEN 2 ELSE 0)
    + (IF HAS_SIZE_RE(s) THEN 2 ELSE 0)
    - 5 * CountIn(s, Control)
    + (IF \E k \in 1..Len(s) : s[k] = 8217 THEN 1 ELSE 0)
    - (IF \E k \in 1..Len(s) : s[k] = 25 THEN 3 ELSE 0)

\* (scoreSdTextCandidate(s) + 0.5 * scoreDecodedString(s)) * 20 * s.length,
\* for a text that is not empty: a score is compared as num / den
CommentScore(s) ==
    [num |-> 20 * Len(s) * SdMarkerScore(s) + 20 * CountIn(s, PrintableAscii)
             + Len(s) * scoreDecodedString10(s),
     den |-> 20 * Len(s)]

ScoreGreater(a, b) == a.num * b.den > b.num * a.den

\* if (sc > best.score) best = { s, score: sc }
BestOfComment(s, sc, best) ==
    IF ScoreGreater(sc, best.score) THEN [found |-> TRUE, text |-> s, score |-> sc] ELSE best

\* best after the candidate s, its NULs stripped
BestAfterComment(s, best) ==
    IF s = <<>> THEN best ELSE BestOfComment(s, CommentScore(s), best)

RECURSIVE BestComment(_, _)
BestComment(cands, best) ==
    IF cands = <<>> THEN best
    ELSE BestComment(Tail(cands), BestAfterComment(StripNuls(Head(cands)), best))

\* the encodings that are tried, in order
EncodingList(isUnicode, isJis, utf16Likely, preferLE) ==
    (IF isJis THEN <<"shift_jis">> ELSE <<>>)
    \o (IF isUnicode THEN <<"utf-16le", "utf-16be">> ELSE <<>>)
    \o (IF ~isUnicode /\ utf16Likely
        THEN (IF preferLE THEN <<"utf-16le", "utf-16">> ELSE <<"utf-16be", "utf-16">>)
             \o <<"utf-8">>
        ELSE <<"utf-8", "utf-16le", "utf-16">>)
    \o (IF ~isUnicode THEN <<"shift_jis">> ELSE <<>>)

\* utf16Likely: many zero bytes
Utf16Likely(data) == 5 * countByte(data, 0) > Max({1, Len(data)})

\* data: the bytes after the encoding prefix
EncodingsOfData(data, isUnicode, isJis) ==
    [data |-> data,
     encs |-> EncodingList(isUnicode, isJis, Utf16Likely(data),
                           Utf16Likely(data) /\ ZeroOdd(data) >= ZeroEven(data))]

\* prefix: the first eight bytes
EncodingsOfPrefix(rawBytes, prefix) ==
    EncodingsOfData(
        IF startsWith(prefix, B_ASCII) \/ startsWith(prefix, B_UNICODE) \/ startsWith(prefix, B_JIS)
        THEN Slice(rawBytes, Min({8, Len(rawBytes)}), Len(rawBytes)) ELSE rawBytes,
        startsWith(prefix, B_UNICODE), startsWith(prefix, B_JIS))

\* the encodings whose decodings are scored, in order
CommentEncodings(rawBytes) ==
    EncodingsOfPrefix(rawBytes, Slice(rawBytes, 0, Min({8, Len(rawBytes)})))

RECURSIVE Decodings(_, _)
Decodings(data, encs) ==
    IF encs = <<>> THEN <<>>
    ELSE <<decodeBytes(data, Head(encs))>> \o Decodings(data, Tail(encs))

\* the best candidate's text, else the bytes as Latin-1, else Null
CommentOr(best, data) ==
    IF best.found THEN best.text
    ELSE IF data # <<>> THEN StripNuls(latin1FromU8(data))
    ELSE Null

\* ce: the data and the encodings tried
CommentOf(ce) ==
    CommentOr(BestComment(Decodings(ce.data, ce.encs),
                          [found |-> FALSE, text |-> <<>>, score |-> [num |-> -1, den |-> 1]]),
              ce.data)

\* decodeExifUserComment(raw) of a byte array: the text, or Null
decodeExifUserComment(rawBytes) == CommentOf(CommentEncodings(rawBytes))

\* utf8: tryDecodeUTF8(v)
Utf8OrShiftJis(v, utf8) ==
    IF utf8 # <<>> /\ Includes(utf8, <<REPLACEMENT>>) THEN decodeShiftJIS(v) ELSE utf8

\* v: the bytes without the trailing NULs
DescriptionOf(v) ==
    IF \/ startsWith(v, <<255, 254>>) \/ startsWith(v, <<254, 255>>)
       \/ v # <<>> /\ 5 * countByte(v, 0) > Len(v)
    THEN decodeBytes(v, "utf-16")
    ELSE Utf8OrShiftJis(v, tryDecodeUTF8(v))

\* the ImageDescription bytes as text
DescriptionText(vb) == DescriptionOf(StripTrailingNuls(vb))

\* the UTF-16LE text of the tag t, or empty
XpDecoded(tags, t) ==
    IF HasTag(tags, t) THEN decodeBytes(TagValue(tags, t), "utf-16le") ELSE <<>>

\* c: the XPComment text, t: the XPTitle text
XpOf(c, t) ==
    IF c # <<>> THEN StripTrailingNuls(c)
    ELSE IF t # <<>> THEN StripTrailingNuls(t)
    ELSE Null

\* the XPComment / XPTitle text, or Null
XpText(tags0) == XpOf(XpDecoded(tags0, TAG_XPComment), XpDecoded(tags0, TAG_XPTitle))

\* the UserComment text of the Exif IFD, or Null
UserCommentOf(exifTags) ==
    IF HasTag(exifTags, TAG_UserComment)
    THEN decodeExifUserComment(TagValue(exifTags, TAG_UserComment)) ELSE Null

UserText(exif, isLE, tags0) ==
    IF HasTag(tags0, TAG_ExifIFD)
    THEN UserCommentOf(readIFD(exif, isLE, 6 + u32(TagValue(tags0, TAG_ExifIFD), isLE, 0)))
    ELSE Null

DescText(tags0) ==
    IF HasTag(tags0, TAG_ImageDescription)
    THEN DescriptionText(TagValue(tags0, TAG_ImageDescription)) ELSE Null

\* tags0: the entries of IFD0
ExifTextsOfIfd0(exif, isLE, tags0) ==
    [ok |-> TRUE,
     user |-> maybeFixUtf16EndianMisdecode(UserText(exif, isLE, tags0)),
     xp |-> maybeFixUtf16EndianMisdecode(XpText(tags0)),
     desc |-> maybeFixUtf16EndianMisdecode(DescText(tags0))]

ExifTextsIn(exif, isLE) ==
    IF ~startsWith(exif, B_Exif) \/ Len(exif) < 14 \/ u16(exif, isLE, 8) # 42
    THEN [ok |-> FALSE, user |-> Null, xp |-> Null, desc |-> Null]
    ELSE ExifTextsOfIfd0(exif, isLE, readIFD(exif, isLE, 6 + u32(exif, isLE, 10)))

\* extractExifTextsFromBytes(exif): ok is FALSE where it returns null; user, xp
\* and desc are texts or Null
extractExifTextsFromBytes(exif) == ExifTextsIn(exif, Slice(exif, 6, 8) = <<73, 73>>)

\* if (t) exifTexts.push(t)
PushText(t) == IF t # Null /\ t # <<>> THEN <<t>> ELSE <<>>

PushExifTexts(multi) ==
    IF multi.ok THEN PushText(multi.user) \o PushText(multi.xp) \o PushText(multi.desc)
    ELSE <<>>

\* the texts pushed from an EXIF block: user, xp, desc, those that are not empty
ExifTextsOf(exif) == PushExifTexts(extractExifTextsFromBytes(exif))

\* --------------------------------------------------------------------- JPEG

XMP_STD == <<104,116,116,112,58,47,47,110,115,46,97,100,111,98,101,46,99,111,109,47,120,97,112,47,49,46,48,0>> \* "http://ns.adobe.com/xap/1.0\0"
XMP_EXT == <<104,116,116,112,58,47,47,110,115,46,97,100,111,98,101,46,99,111,109,47,120,109,112,47,101,120,116,101,110,115,105,111,110,47,0>> \* "http://ns.adobe.com/xmp/extension/\0"

readU32BE(a, o) == u32(a, FALSE, o)

safeAscii(u) == [k \in 1..Len(u) |-> IF u[k] < 32 \/ u[k] > 126 THEN 63 ELSE u[k]]

\* PutChunk that keeps the chunks in the order of the file: tells whether the
\* properties see the ordering by offset
PutChunkInFileOrder(chunks, offset, payload) ==
    Append(SelectSeq(chunks, LAMBDA c : c[1] # offset), <<offset, payload>>)

\* d.chunks[offset] = payload: the chunks are kept by ascending offset
PutChunk(chunks, offset, payload) ==
    SelectSeq(chunks, LAMBDA c : c[1] < offset)
    \o <<<<offset, payload>>>>
    \o SelectSeq(chunks, LAMBDA c : c[1] > offset)

\* xmpExt[guid] = d, at the position of guid (0: a new guid)
PutExtensionAt(xmpExtMap, at, guid, total, offset, payload) ==
    IF at = 0
    THEN Append(xmpExtMap, [guid |-> guid, total |-> total,
                            chunks |-> <<<<offset, payload>>>>])
    ELSE [xmpExtMap EXCEPT ![at] =
             [guid |-> guid, total |-> total,
              chunks |-> PutChunk(xmpExtMap[at].chunks, offset, payload)]]

PutExtensionOf(xmpExtMap, guid, total, offset, payload) ==
    PutExtensionAt(xmpExtMap, MinOr({i \in 1..Len(xmpExtMap) : xmpExtMap[i].guid = guid}, 0),
                   guid, total, offset, payload)

\* xmpExt[guid] = d after an extension segment
PutExtension(xmpExtMap, rest) ==
    PutExtensionOf(xmpExtMap, safeAscii(Slice(rest, 0, 32)), readU32BE(rest, 32),
                   readU32BE(rest, 36), Slice(rest, 40, Len(rest)))

NoSegments == [exif |-> Null, xmpMain |-> <<>>, xmpExtMap |-> <<>>, comment |-> Null]

\* if (txt) jpegComment = txt
TakeComment(acc, txt) == IF txt # <<>> THEN [acc EXCEPT !.comment = txt] ELSE acc

\* what a segment adds to what was collected
TakeSegment(acc, marker, seg) ==
    IF marker = 225
    THEN IF startsWith(seg, B_Exif) THEN [acc EXCEPT !.exif = seg]
         ELSE IF startsWith(seg, XMP_STD)
              THEN [acc EXCEPT !.xmpMain =
                       Append(@, strFromU8(Slice(seg, Len(XMP_STD), Len(seg))))]
         ELSE IF startsWith(seg, XMP_EXT) /\ Len(seg) - Len(XMP_EXT) >= 40
              THEN [acc EXCEPT !.xmpExtMap =
                       PutExtension(@, Slice(seg, Len(XMP_EXT), Len(seg)))]
         ELSE acc
    ELSE IF marker = 254 THEN TakeComment(acc, tryDecodeUTF8(seg))
    ELSE acc

\* past the fill bytes 0xFF from off
SkipFill(u8, off) == Min({j \in off..Len(u8) : j = Len(u8) \/ At(u8, j) # 255})

RECURSIVE JpegSegments(_, _, _)

\* the segment whose length field is at m + 1 and which ends at end
SegmentUpTo(u8, m, seglen, end, acc) ==
    IF seglen < 2 \/ end > Len(u8) THEN acc
    ELSE JpegSegments(u8, end, TakeSegment(acc, At(u8, m), Slice(u8, m + 3, end)))

\* the segment of length seglen whose marker is at m
SegmentOf(u8, m, seglen, acc) == SegmentUpTo(u8, m, seglen, m + 3 + seglen - 2, acc)

\* the marker at m, after the fill bytes
MarkerAt(u8, m, acc) ==
    IF m >= Len(u8) THEN acc
    ELSE IF At(u8, m) \in {217, 218} THEN acc
    ELSE IF At(u8, m) \in 208..215 THEN JpegSegments(u8, m + 1, acc)
    ELSE IF m + 3 > Len(u8) THEN acc
    ELSE SegmentOf(u8, m, 256 * At(u8, m + 1) + At(u8, m + 2), acc)

\* the marker at m, EOI passed like a restart marker
MarkerPastEoi(u8, m, acc) ==
    IF m < Len(u8) /\ At(u8, m) = 217 THEN JpegSegments(u8, m + 1, acc) ELSE MarkerAt(u8, m, acc)

\* the segment loop that goes on behind EOI
JpegSegmentsPastEoi(u8, off, acc) ==
    IF off + 4 > Len(u8) THEN acc
    ELSE IF At(u8, off) # 255 THEN JpegSegments(u8, off + 1, acc)
    ELSE MarkerPastEoi(u8, SkipFill(u8, off), acc)

\* the segment loop of parseJpeg from off
JpegSegments(u8, off, acc) ==
    IF off + 4 > Len(u8) THEN acc
    ELSE IF At(u8, off) # 255 THEN JpegSegments(u8, off + 1, acc)
    ELSE MarkerAt(u8, SkipFill(u8, off), acc)

RECURSIVE ChunkBytes(_)
ChunkBytes(chunks) ==
    IF chunks = <<>> THEN <<>> ELSE Head(chunks)[2] \o ChunkBytes(Tail(chunks))

\* strFromU8(buf.subarray(0, Math.min(info.total, buf.length)))
ExtensionText(total, bytes) == strFromU8(Slice(bytes, 0, Min({total, Len(bytes)})))

RECURSIVE ExtendedXml(_)
ExtendedXml(xmpExtMap) ==
    IF xmpExtMap = <<>> THEN <<>>
    ELSE ExtensionText(Head(xmpExtMap).total, ChunkBytes(Head(xmpExtMap).chunks))
         \o ExtendedXml(Tail(xmpExtMap))

\* xmpXml: the text, or Null
JpegXmp(acc) ==
    IF acc.xmpMain = <<>> /\ acc.xmpExtMap = <<>> THEN Null
    ELSE Concat(acc.xmpMain) \o ExtendedXml(acc.xmpExtMap)

\* tryTexts
TryTexts(exifTs, xml, comment) ==
    exifTs
    \o (IF xml # Null /\ xml # <<>> THEN extractFromXmpAttributes(xml) \o <<xml>> ELSE <<>>)
    \o (IF comment # Null /\ comment # <<>> THEN <<comment>> ELSE <<>>)

\* looksGarbled(x) for a value that need not be a string: "throws" where the
\* call raises TypeError
LooksGarbledValue(x) ==
    CASE x.t = "str" -> IF looksGarbled(x.v) THEN "true" ELSE "false"
      [] ~Truthy(x) -> "false"
      [] x.t = "arr" ->
            IF \E i \in 1..Len(x.v) : IsText(x.v[i], <<REPLACEMENT>>) \/ IsText(x.v[i], <<0>>)
            THEN "true"
            ELSE IF x.v = <<>> THEN "false" ELSE "throws"
      [] OTHER -> "throws"

\* if (rec) raw["parameters"] = rec, recovered being rec
Recovered(sel, recovered) ==
    [rec |-> recovered,
     parameters |-> IF Truthy(recovered) THEN recovered ELSE TextValue(sel)]

\* raw["parameters"] after selection and recovery
AfterRecovery(u8, sel) ==
    Recovered(sel, IF sel = Null THEN recoverParameters(u8, Null)
                   ELSE IF looksGarbled(sel) THEN recoverParameters(u8, sel)
                   ELSE JNull)

\* if (whole) raw["parameters"] = whole
WholeOr(whole, p) == IF whole # Null /\ whole # <<>> THEN Str(whole) ELSE p

\* recovered: scanFileForSdText(u8)
LastFixOf(u8, p, recovered) ==
    IF recovered # Null /\ recovered # <<>> THEN Str(recovered)
    ELSE WholeOr(IfNull(scanWholeFileForUtf16A1111(u8), scanWholeFileForSjisA1111(u8)), p)

\* the last fix of parseJpeg for a parameters value that looks garbled
LastFix(u8, p) == LastFixOf(u8, p, scanFileForSdText(u8))

\* the raw record: parameters, then the reference texts that exist
RawRecord(p, refs) ==
    (IF Truthy(p) THEN <<<<S_parameters, p>>>> ELSE <<>>)
    \o SelectSeq(refs, LAMBDA r : r[2].v # <<>>)

S_EXIF == <<69, 88, 73, 70>>                                              \* "EXIF"
S_XMP == <<88, 77, 80>>                                                   \* "XMP"
S_Comment == <<67, 111, 109, 109, 101, 110, 116>>                         \* "Comment"

\* fields: normalizeKnownFields(raw), where raw["parameters"] is p; txt.split
\* raises TypeError on a value that is not a string
FinishWith(fmt, rw, locals, p) ==
    IF Truthy(p) /\ ~IsStr(p)
    THEN [threw |-> TRUE, format |-> fmt, fields |-> <<>>, raw |-> rw] @@ locals
    ELSE [threw |-> FALSE, format |-> fmt, fields |-> normalizeKnownFields(rw), raw |-> rw]
         @@ locals

\* normalizeKnownFields(raw) where raw["parameters"] need not be a string
Finish(fmt, rw, locals) == FinishWith(fmt, rw, locals, ObjGet(rw, S_parameters))

NoLocals ==
    [exifTexts |-> <<>>, xmpXml |-> Null, jpegComment |-> Null, tryTexts |-> <<>>,
     selected |-> Null, rec |-> JNull]

Empty(fmt) ==
    [threw |-> FALSE, format |-> fmt, fields |-> <<>>, raw |-> <<>>] @@ NoLocals

\* a text that may be Null, as a reference text
RefText(t) == Str(IF t = Null THEN <<>> ELSE t)

\* raw with the parameters value p and the reference texts
JpegRaw(p, locals) ==
    RawRecord(p, << <<S_EXIF, Str(JoinTexts(locals.exifTexts, <<10>>))>>,
                    <<S_XMP, RefText(locals.xmpXml)>>,
                    <<S_Comment, RefText(locals.jpegComment)>> >>)

\* the end of parseJpeg: p is raw["parameters"] after recovery, garbled what
\* looksGarbled says of it
JpegLastFix(u8, locals, p, garbled) ==
    IF garbled = "throws"
    THEN [threw |-> TRUE, format |-> "jpeg", fields |-> <<>>, raw |-> JpegRaw(p, locals)]
         @@ locals
    ELSE Finish("jpeg", JpegRaw(IF garbled = "true" THEN LastFix(u8, p) ELSE p, locals), locals)

\* after: what selection and recovery left
JpegRecovered(u8, locals, after) ==
    JpegLastFix(u8, [locals EXCEPT !.rec = after.rec], after.parameters,
                LooksGarbledValue(after.parameters))

\* sel: selectBestParametersFromTexts(tryTexts)
JpegSelected(u8, locals, sel) ==
    JpegRecovered(u8, [locals EXCEPT !.selected = sel], AfterRecovery(u8, sel))

\* texts: tryTexts
JpegTried(u8, locals, texts) ==
    JpegSelected(u8, [locals EXCEPT !.tryTexts = texts], selectBestParametersFromTexts(texts))

\* the texts collected: exifTexts, xmpXml, jpegComment
JpegCollected(u8, exifTs, xml, comment) ==
    JpegTried(u8, [NoLocals EXCEPT !.exifTexts = exifTs, !.xmpXml = xml,
                                   !.jpegComment = comment],
              TryTexts(exifTs, xml, comment))

\* acc: what the segment loop collected
JpegOfSegments(u8, acc) ==
    JpegCollected(u8, IF acc.exif # Null THEN ExifTextsOf(acc.exif) ELSE <<>>,
                  JpegXmp(acc), acc.comment)

\* parseJpeg without the test of the SOI marker: tells whether the properties
\* see the early return
parseJpegAnyStart(u8) == JpegOfSegments(u8, JpegSegments(u8, 2, NoSegments))

\* parseJpeg(u8): the result, with the locals the claims speak of
parseJpeg(u8) ==
    IF Len(u8) < 2 \/ u8[1] # 255 \/ u8[2] # 216 THEN Empty("jpeg")
    ELSE JpegOfSegments(u8, JpegSegments(u8, 2, NoSegments))

\* --------------------------------------------------------------------- WebP

B_RIFF == <<82, 73, 70, 70>>                                              \* "RIFF"
B_WEBP == <<87, 69, 66, 80>>                                              \* "WEBP"
B_EXIF == <<69, 88, 73, 70>>                                              \* "EXIF"
B_XMP == <<88, 77, 80, 32>>                                               \* "XMP "

NoChunks == [exifChunk |-> Null, xml |-> Null]

RECURSIVE WebpChunks(_, _, _)

\* the chunk at off of the given tag and size
WebpChunkOf(u8, off, tag, size, acc) ==
    IF off + 8 + size > Len(u8) THEN acc
    ELSE WebpChunks(u8, off + 8 + size + (size % 2),
             IF tag = B_EXIF THEN [acc EXCEPT !.exifChunk = Slice(u8, off + 8, off + 8 + size)]
             ELSE IF tag = B_XMP
                  THEN [acc EXCEPT !.xml = decodeXmpChunk(Slice(u8, off + 8, off + 8 + size))]
             ELSE acc)

\* the chunk loop of parseWebp from off
WebpChunks(u8, off, acc) ==
    IF off + 8 > Len(u8) THEN acc
    ELSE WebpChunkOf(u8, off, Slice(u8, off, off + 4), u32(u8, TRUE, off + 4), acc)

\* raw with the parameters value p and the reference texts
WebpRaw(p, locals) ==
    RawRecord(p, << <<S_EXIF, Str(JoinTexts(locals.exifTexts, <<10>>))>>,
                    <<S_XMP, RefText(locals.xmpXml)>> >>)

\* after: what selection and recovery left
WebpRecovered(locals, after) ==
    Finish("webp", WebpRaw(after.parameters, locals), [locals EXCEPT !.rec = after.rec])

\* chosen: selectBestParametersFromTexts(tryTexts)
WebpSelected(u8, locals, chosen) ==
    WebpRecovered([locals EXCEPT !.selected = chosen], AfterRecovery(u8, chosen))

\* texts: tryTexts
WebpTried(u8, locals, texts) ==
    WebpSelected(u8, [locals EXCEPT !.tryTexts = texts], selectBestParametersFromTexts(texts))

\* the texts collected: exifTexts and the XMP text
WebpCollected(u8, exifTs, xml) ==
    WebpTried(u8, [NoLocals EXCEPT !.exifTexts = exifTs, !.xmpXml = xml],
              TryTexts(exifTs, xml, Null))

\* ExifPayload that prepends nothing: tells whether the properties see the
\* header that parseWebp prepends
ExifPayloadAsIs(exifChunk) == exifChunk

\* the EXIF chunk with the "Exif\0\0" header that the reader wants
ExifPayload(exifChunk) ==
    IF startsWith(exifChunk, B_Exif) THEN exifChunk ELSE B_Exif \o exifChunk

\* acc: what the chunk loop collected
WebpOfChunks(u8, acc) ==
    WebpCollected(u8,
                  IF acc.exifChunk # Null /\ Len(acc.exifChunk) >= 8
                  THEN ExifTextsOf(ExifPayload(acc.exifChunk)) ELSE <<>>,
                  acc.xml)

\* parseWebp(u8): the result, with the locals the claims speak of
parseWebp(u8) ==
    IF Len(u8) < 12 \/ Slice(u8, 0, 4) # B_RIFF \/ Slice(u8, 8, 12) # B_WEBP
    THEN Empty("webp")
    ELSE WebpOfChunks(u8, WebpChunks(u8, 12, NoChunks))

\* ---------------------------------------------------------------------- PNG

pngSig == <<137, 80, 78, 71, 13, 10, 26, 10>>
S_tEXt == <<116, 69, 88, 116>>                                            \* "tEXt"
S_iTXt == <<105, 84, 88, 116>>                                            \* "iTXt"
S_zTXt == <<122, 84, 88, 116>>                                            \* "zTXt"
S_IEND == <<73, 69, 78, 68>>                                              \* "IEND"

readU32(u8, o) == u32(u8, FALSE, o)

\* a relative index of subarray: a negative index counts from the end
RelativeIndex(u, i) == IF i < 0 THEN Max({Len(u) + i, 0}) ELSE Min({i, Len(u)})

\* TypedArray.prototype.subarray(a, b): a negative index counts from the end
Subarray(u, a, b) ==
    IF RelativeIndex(u, b) <= RelativeIndex(u, a) THEN <<>>
    ELSE Slice(u, RelativeIndex(u, a), RelativeIndex(u, b))

\* inflateSync of fflate for a stream of stored blocks; a stream with a
\* compressed block is outside this model and gives UNMODELLED_DEFLATE
UNMODELLED_DEFLATE == <<1114113>>

RECURSIVE InflateBlocks(_, _, _)

\* the stored block at pos that ends at t
StoredBlock(b, pos, out, final, t) ==
    IF t > Len(b) THEN [ok |-> FALSE, out |-> <<>>]
    ELSE IF final THEN [ok |-> TRUE, out |-> out \o Slice(b, pos + 5, t)]
    ELSE InflateBlocks(b, t, out \o Slice(b, pos + 5, t))

\* the block at pos whose header byte is h
BlockOfType(b, pos, out, h) ==
    IF (h \div 2) % 4 = 3 THEN [ok |-> FALSE, out |-> <<>>]
    ELSE IF (h \div 2) % 4 # 0 THEN [ok |-> TRUE, out |-> UNMODELLED_DEFLATE]
    ELSE StoredBlock(b, pos, out, h % 2 = 1,
                     pos + 5 + ByteAt(b, pos + 1) + 256 * ByteAt(b, pos + 2))

InflateBlocks(b, pos, out) == BlockOfType(b, pos, out, ByteAt(b, pos))

\* ok is FALSE where inflateSync throws
inflateSync(b) == IF b = <<>> THEN [ok |-> TRUE, out |-> <<>>] ELSE InflateBlocks(b, 0, <<>>)

NoKeyText == [key |-> <<>>, text |-> <<>>]

\* zero: where the key ends (-1: nowhere)
TextAfterKey(data, zero) ==
    IF zero < 0 THEN NoKeyText
    ELSE [key |-> latin1FromU8(Slice(data, 0, zero)),
          text |-> latin1FromU8(Slice(data, zero + 1, Len(data)))]

parse_tEXt(data) == TextAfterKey(data, IndexOf(data, <<0>>))

\* the text of what was inflated, empty where inflateSync throws
InflatedLatin1(inflated) == IF inflated.ok THEN latin1FromU8(inflated.out) ELSE <<>>

\* zero: where the key ends (-1: nowhere)
CompressedAfterKey(data, zero) ==
    IF zero < 0 THEN NoKeyText
    ELSE IF zero + 1 >= Len(data) \/ At(data, zero + 1) # 0
         THEN [key |-> latin1FromU8(Slice(data, 0, zero)), text |-> <<>>]
    ELSE [key |-> latin1FromU8(Slice(data, 0, zero)),
          text |-> InflatedLatin1(inflateSync(Subarray(data, zero + 2, Len(data))))]

parse_zTXt(data) == CompressedAfterKey(data, IndexOf(data, <<0>>))

\* z: where the next zero byte is
ReadUpTo(data, p, z) == [out |-> Subarray(data, p, z), p |-> z + 1]

\* readz() of parse_iTXt at p: the bytes read and the new p
readz(data, p) == ReadUpTo(data, p, IndexOfFrom(data, <<0>>, p))

\* the text of what was inflated, empty where inflateSync throws
InflatedUtf8(inflated) == IF inflated.ok THEN strFromU8(inflated.out) ELSE <<>>

\* rest: the bytes after the translated keyword
InternationalText(key, compFlag, rest) ==
    [key |-> strFromU8(key),
     text |-> IF compFlag = 0 THEN strFromU8(rest) ELSE InflatedUtf8(inflateSync(rest))]

\* translated: the translated keyword that was read
AfterTranslated(data, key, compFlag, translated) ==
    InternationalText(key, compFlag, Subarray(data, translated.p, Len(data)))

\* lang: the language tag that was read
AfterLanguage(data, key, compFlag, lang) ==
    AfterTranslated(data, key, compFlag, readz(data, lang.p))

\* k: the keyword that was read
AfterKeyword(data, k) ==
    AfterLanguage(data, k.out, ByteAt(data, k.p), readz(data, k.p + 2))

parse_iTXt(data) == AfterKeyword(data, readz(data, 0))

\* the key and the text of a chunk
ChunkText(type, data) ==
    CASE type = S_tEXt -> parse_tEXt(data)
      [] type = S_iTXt -> parse_iTXt(data)
      [] type = S_zTXt -> parse_zTXt(data)
      [] OTHER -> NoKeyText

\* if (key) raw[key] = text
PutText(rw, kt) == IF kt.key # <<>> THEN ObjSet(rw, kt.key, Str(kt.text)) ELSE rw

RECURSIVE PngChunks(_, _, _)

\* rw2: raw after the chunk at off
AfterChunk(u8, off, len, type, rw2) ==
    IF type = S_IEND THEN rw2 ELSE PngChunks(u8, off + 8 + len + 4, rw2)

\* the chunk at off of the given length and type
PngChunkOf(u8, off, len, type, rw) ==
    AfterChunk(u8, off, len, type,
               PutText(rw, ChunkText(type, Subarray(u8, off + 8, off + 8 + len))))

\* the chunk loop of parsePng from off: the raw record
PngChunks(u8, off, rw) ==
    IF off + 8 > Len(u8) THEN rw
    ELSE PngChunkOf(u8, off, readU32(u8, off), strFromU8(Slice(u8, off + 4, off + 8)), rw)

parsePng(u8) ==
    IF Len(u8) < 8 \/ Slice(u8, 0, 8) # pngSig THEN Empty("png")
    ELSE Finish("png", PngChunks(u8, 8, <<>>), NoLocals)

\* -------------------------------------------------------------- entry point

S_png == <<112, 110, 103>>                                                \* "png"
S_jpg == <<106, 112, 103>>                                                \* "jpg"
S_jpeg == <<106, 112, 101, 103>>                                          \* "jpeg"
S_webp == <<119, 101, 98, 112>>                                           \* "webp"

\* parseImageMeta without toLowerCase: tells whether the properties see the
\* lower-casing of the hint
parseImageMetaCaseSensitive(buffer, hint) ==
    IF hint = S_png THEN parsePng(buffer)
    ELSE IF hint = S_jpg \/ hint = S_jpeg THEN parseJpeg(buffer)
    ELSE IF hint = S_webp THEN parseWebp(buffer)
    ELSE Empty("unknown")

\* the reader that the lower-cased hint selects
ParseAs(buffer, lower) ==
    IF lower = S_png THEN parsePng(buffer)
    ELSE IF lower = S_jpg \/ lower = S_jpeg THEN parseJpeg(buffer)
    ELSE IF lower = S_webp THEN parseWebp(buffer)
    ELSE Empty("unknown")

parseImageMeta(buffer, hint) == ParseAs(buffer, toLowerCase(hint))

\* ------------------------------------------------------- locator harness

MaxLocFrags == 3

T_cat == <<97,32,99,97,116>>                                   \* "a cat"
T_blurry == <<32,98,108,117,114,114,121>>                      \* " blurry"
T_nlSteps == <<10,83,116,101,112,115,58,32,50,48>>             \* "\nSteps: 20"
T_nlSampler == <<10,83,97,109,112,108,101,114,58,32,69,117,108,101,114>> \* "\nSampler: Euler"
T_crlfSeed == <<13,10,32,9,115,101,101,100,58,32,49>>          \* "\r\n \tseed: 1"
T_nlx == <<10,120>>                                            \* "\nx"
\* "\nSampler: Euler\nSteps: 20"
T_samplerThenSteps == T_nlSampler \o T_nlSteps
\* eight ideographic spaces U+3000: code units whose low byte is zero
T_wide == <<12288,12288,12288,12288,12288,12288,12288,12288>>
\* "Negative prompt:" read with the wrong byte order (each unit c * 256)
T_swappedLabel == <<19968,25856,26368,24832,29696,26880,30208,25856,8192,28672,29184,28416,27904,28672,29696,14848>>
\* eight U+0001, the wrong-byte-order reading of eight U+0100
T_swappedTail == <<1,1,1,1,1,1,1,1>>

LocFrags == {T_cat, T_blurry, NEGATIVE_PROMPT_LABEL, T_nlSteps, T_nlSampler,
             T_samplerThenSteps, T_crlfSeed, T_nlx, T_wide, T_swappedLabel, T_swappedTail}

RECURSIVE SeqsUpTo(_, _)
SeqsUpTo(S, n) ==
    IF n = 0 THEN {<<>>}
    ELSE LET shorter == SeqsUpTo(S, n - 1)
         IN  shorter \cup {Append(q, x) : q \in shorter, x \in S}

LocTexts == {Concat(q) : q \in SeqsUpTo(LocFrags, MaxLocFrags)}

InitLocator ==
    /\ pc = "locate"
    /\ walk = NoWalk
    /\ view = NoView
    /\ src \in LocTexts
    /\ blk = Null
    /\ blk2 = Null
    /\ raw = <<>>
    /\ fields = <<>>
    /\ buf = <<>>
    /\ ext = <<>>
    /\ threw = FALSE
    /\ format = "none"
    /\ exifTexts = <<>>
    /\ xmpXml = Null
    /\ jpegComment = Null
    /\ tryTexts = <<>>
    /\ selected = Null
    /\ rec = JNull

Locate ==
    /\ pc = "locate"
    /\ blk' = extractA1111BlockFromText(src)
    /\ pc' = "relocate"
    /\ UNCHANGED <<src, blk2, normVars, callVars, walk, view>>

Relocate ==
    /\ pc = "relocate"
    /\ blk2' = extractA1111BlockFromText(blk)
    /\ pc' = "located"
    /\ UNCHANGED <<src, blk, normVars, callVars, walk, view>>

NextLocator == Locate \/ Relocate

SpecLocator == InitLocator /\ [][NextLocator]_vars

\* C6: the locator is idempotent: on a block B it returned, it returns B.
C6_LocatorIdempotent == (pc = "located" /\ blk # Null) => blk2 = blk

\* C7: the locator returns nothing exactly when the text has no
\* "Negative prompt:"; otherwise it returns the unaltered prefix of the text
\* that ends with the settings line chosen after the first newline following
\* the label, or the entire text when no settings line follows.
C7_LocatorPrefix ==
    pc # "locate" =>
        LET negIdx == IndexOf(src, NEGATIVE_PROMPT_LABEL)
            nl == IndexOfFrom(src, <<10>>, negIdx)
            tailStart == IF nl > 0 THEN nl + 1 ELSE Len(src)
            picked == pickSettingsLineWithIndex(Slice(src, tailStart, Len(src)))
        IN  /\ (blk = Null) <=> (negIdx < 0)
            /\ blk # Null =>
                  blk = IF picked.found THEN Slice(src, 0, tailStart + picked.end) ELSE src

\* ---------------------------------------------------- normalizer harness

MaxNormFrags == 3

T_nlNeg == <<10,78,101,103,97,116,105,118,101,32,112,114,111,109,112,116,58,32,98,108,117,114,114,121>> \* "\nNegative prompt: blurry"
T_nlSettings == <<10,83,116,101,112,115,58,32,50,48,44,32,83,97,109,112,108,101,114,58,32,69,117,108,101,114,44,32,67,70,71,32,115,99,97,108,101,58,32,55,44,32,83,101,101,100,58,32,52,50,44,32,83,105,122,101,58,32,53,49,50,120,53,49,50>> \* "\nSteps: 20, Sampler: Euler, CFG scale: 7, Seed: 42, Size: 512x512"
T_nlParametersRaw == <<10,112,97,114,97,109,101,116,101,114,115,95,114,97,119,58,32,120>> \* "\nparameters_raw: x"
T_nlPromptDog == <<10,112,114,111,109,112,116,58,32,100,111,103>> \* "\nprompt: dog"
T_crlf == <<13,10>>                                            \* "\r\n"
T_dog == <<97,32,100,111,103>>                                 \* "a dog"
\* {"3":{"class_type":"KSampler","inputs":{"seed":7,"positive":["5",0],"negative":["6",0]}},
\*  "5":{"class_type":"CLIPTextEncode","inputs":{"text":"a dog"}},
\*  "6":{"inputs":{"text_g":"blurry","text_l":"x"}}}
T_graph == <<123,34,51,34,58,123,34,99,108,97,115,115,95,116,121,112,101,34,58,34,75,83,97,109,112,108,101,114,34,44,34,105,110,112,117,116,115,34,58,123,34,115,101,101,100,34,58,55,44,34,112,111,115,105,116,105,118,101,34,58,91,34,53,34,44,48,93,44,34,110,101,103,97,116,105,118,101,34,58,91,34,54,34,44,48,93,125,125,44,34,53,34,58,123,34,99,108,97,115,115,95,116,121,112,101,34,58,34,67,76,73,80,84,101,120,116,69,110,99,111,100,101,34,44,34,105,110,112,117,116,115,34,58,123,34,116,101,120,116,34,58,34,97,32,100,111,103,34,125,125,44,34,54,34,58,123,34,105,110,112,117,116,115,34,58,123,34,116,101,120,116,95,103,34,58,34,98,108,117,114,114,121,34,44,34,116,101,120,116,95,108,34,58,34,120,34,125,125,125>>

\* {"3":{"class_type":"KSamplerAdvanced","inputs":{"positive":["5",0],"negative":["6",0]}},"5":{"class_type":"CLIPTextEncode","inputs":{"text":""}},"6":{"class_type":"CLIPTextEncode","inputs":{"text":"blurry"}}}
T_graphEmptyText == <<123,34,51,34,58,123,34,99,108,97,115,115,95,116,121,112,101,34,58,34,75,83,97,109,112,108,101,114,65,100,118,97,110,99,101,100,34,44,34,105,110,112,117,116,115,34,58,123,34,112,111,115,105,116,105,118,101,34,58,91,34,53,34,44,48,93,44,34,110,101,103,97,116,105,118,101,34,58,91,34,54,34,44,48,93,125,125,44,34,53,34,58,123,34,99,108,97,115,115,95,116,121,112,101,34,58,34,67,76,73,80,84,101,120,116,69,110,99,111,100,101,34,44,34,105,110,112,117,116,115,34,58,123,34,116,101,120,116,34,58,34,34,125,125,44,34,54,34,58,123,34,99,108,97,115,115,95,116,121,112,101,34,58,34,67,76,73,80,84,101,120,116,69,110,99,111,100,101,34,44,34,105,110,112,117,116,115,34,58,123,34,116,101,120,116,34,58,34,98,108,117,114,114,121,34,125,125,125>>

NormFrags == {T_cat, T_nlNeg, T_nlSettings, T_nlSteps, T_nlParametersRaw,
              T_nlPromptDog, T_crlf, T_nlx}

ParameterTexts == {Concat(q) : q \in SeqsUpTo(NormFrags, MaxNormFrags)}

\* the text chunks a PNG can hold besides "parameters"
OtherChunks == {<<>>,
                <<<<S_prompt, Str(T_graph)>>>>,
                <<<<S_prompt, Str(T_graphEmptyText)>>>>,
                <<<<S_prompt, Str(T_dog)>>>>,
                <<<<S_Prompt, Str(T_dog)>>>>}

RawRecords ==
    OtherChunks \cup {o \o <<<<S_parameters, Str(p)>>>> : o \in OtherChunks, p \in ParameterTexts}

InitNorm ==
    /\ pc = "normalize"
    /\ walk = NoWalk
    /\ view = NoView
    /\ raw \in RawRecords
    /\ fields = <<>>
    /\ src = <<>>
    /\ blk = Null
    /\ blk2 = Null
    /\ buf = <<>>
    /\ ext = <<>>
    /\ threw = FALSE
    /\ format = "none"
    /\ exifTexts = <<>>
    /\ xmpXml = Null
    /\ jpegComment = Null
    /\ tryTexts = <<>>
    /\ selected = Null
    /\ rec = JNull

Normalize ==
    /\ pc = "normalize"
    /\ fields' = normalizeKnownFields(raw)
    /\ pc' = "normalized"
    /\ UNCHANGED <<raw, locVars, callVars, walk, view>>

NextNorm == Normalize

SpecNorm == InitNorm /\ [][NextNorm]_vars

RawParameters == ObjGet(raw, S_parameters).v

\* what precedes the first line break (LF or CRLF) of a text
FirstLine(txt) == SplitLines(txt)[1]

\* C3: a settings line "Steps: 20, Sampler: Euler, CFG scale: 7, Seed: 42,
\* Size: 512x512" gives one field per pair, holding that pair's value alone.
C3_SettingsPairs ==
    (pc = "normalized" /\ ObjHas(raw, S_parameters)
        /\ EndsWithText(RawParameters, T_nlSettings)
        /\ ~IsText(ObjGet(fields, S_generator), S_ComfyUI)) =>
            /\ IsText(ObjGet(fields, S_Steps), <<50,48>>)                 \* Steps = "20"
            /\ IsText(ObjGet(fields, S_Sampler), <<69,117,108,101,114>>)  \* Sampler = "Euler"
            /\ IsText(ObjGet(fields, S_CFG_scale), <<55>>)                \* CFG scale = "7"
            /\ IsText(ObjGet(fields, S_Seed), <<52,50>>)                  \* Seed = "42"
            /\ IsText(ObjGet(fields, S_Size), <<53,49,50,120,53,49,50>>)  \* Size = "512x512"

\* C4: fields has parameters_raw exactly when raw has parameters, and then
\* fields["parameters_raw"] is raw["parameters"], whatever the text holds.
C4_ParametersRaw ==
    pc = "normalized" =>
        /\ ObjHas(fields, S_parameters_raw) <=> ObjHas(raw, S_parameters)
        /\ ObjHas(raw, S_parameters) =>
              SameValue(ObjGet(fields, S_parameters_raw), ObjGet(raw, S_parameters))

\* C5: with a parameters text, no prompt/Prompt key in raw and no ComfyUI
\* graph, fields["prompt"] is the first line of raw["parameters"].
C5_PromptFirstLine ==
    (pc = "normalized" /\ ObjHas(raw, S_parameters) /\ RawParameters # <<>>
        /\ ~ObjHas(raw, S_prompt) /\ ~ObjHas(raw, S_Prompt)
        /\ ~IsText(ObjGet(fields, S_generator), S_ComfyUI)) =>
            IsText(ObjGet(fields, S_prompt), FirstLine(RawParameters))

\* ------------------------------------------------------ parseImageMeta calls

MaxSegments == 2

T_catBlock == <<97,32,99,97,116,10,78,101,103,97,116,105,118,101,32,112,114,111,109,112,116,58,32,98,108,117,114,114,121,10,83,116,101,112,115,58,32,50,48>> \* "a cat\nNegative prompt: blurry\nSteps: 20"
T_dogBlock == <<97,32,100,111,103,10,78,101,103,97,116,105,118,101,32,112,114,111,109,112,116,58,32,120,10,83,116,101,112,115,58,32,57>> \* "a dog\nNegative prompt: x\nSteps: 9"
T_foxBlock == <<97,32,102,111,120,10,78,101,103,97,116,105,118,101,32,112,114,111,109,112,116,58,32,122,10,83,116,101,112,115,58,32,55>> \* "a fox\nNegative prompt: z\nSteps: 7"
T_negOnly == <<78,101,103,97,116,105,118,101,32,112,114,111,109,112,116,58,32,121,121>> \* "Negative prompt: yy"
T_list == <<97,44,32,98,44,32,99>>                                        \* "a, b, c"
T_wideBlock == <<98,10,78,101,103,97,116,105,118,101,32,112,114,111,109,112,116,58,32,107,10,83,116,101,112,115,58,32,49>> \* "b\nNegative prompt: k\nSteps: 1"
T_stepsOnly == <<98,10,83,116,101,112,115,58,32,49>>                      \* "b\nSteps: 1"
T_evil == <<78,101,103,97,116,105,118,101,32,112,114,111,109,112,116,58,32,101,118,105,108,10,83,116,101,112,115,58,32,57,57>> \* "Negative prompt: evil\nSteps: 99"
T_jsonPrompt == <<123,34,112,114,111,109,112,116,34,58,34,97,34,125>>     \* {"prompt":"a"}
T_jsonNumber == <<123,34,115,100,45,109,101,116,97,100,97,116,97,34,58,49,44,34,112,97,114,97,109,101,116,101,114,115,34,58,53,125>> \* {"sd-metadata":1,"parameters":5}
T_jsonArray == <<123,34,115,100,45,109,101,116,97,100,97,116,97,34,58,49,44,34,112,97,114,97,109,101,116,101,114,115,34,58,91,49,93,125>> \* {"sd-metadata":1,"parameters":[1]}
T_xmlOpen == <<60,120,32,112,97,114,97,109,101,116,101,114,115,61,34>>    \* <x parameters="
T_xmlClose == <<34,47,62>>                                                \* "/>
B_UNICODE0 == <<85,78,73,67,79,68,69,0>>                                  \* "UNICODE\0"
B_parameters0 == <<112,97,114,97,109,101,116,101,114,115,0>>              \* "parameters\0"
B_prompt0 == <<112,114,111,109,112,116,0>>                                \* "prompt\0"

\* the bytes of a text in UTF-16LE
Utf16LE(s) ==
    [k \in 1..(2 * Len(s)) |->
        IF k % 2 = 1 THEN s[(k + 1) \div 2] % 256 ELSE (s[k \div 2] \div 256) % 256]

\* the bytes of a text in UTF-16BE
Utf16BE(s) ==
    [k \in 1..(2 * Len(s)) |->
        IF k % 2 = 1 THEN (s[(k + 1) \div 2] \div 256) % 256 ELSE s[k \div 2] % 256]

U16LE(n) == <<n % 256, (n \div 256) % 256>>
U32LE(n) == <<n % 256, (n \div 256) % 256, (n \div 65536) % 256, (n \div 16777216) % 256>>
U16BE(n) == <<(n \div 256) % 256, n % 256>>
U32BE(n) == <<(n \div 16777216) % 256, (n \div 65536) % 256, (n \div 256) % 256, n % 256>>

IfdEntryBytes(tag, typ, cnt, v) == U16LE(tag) \o U16LE(typ) \o U32LE(cnt) \o U32LE(v)

\* A little-endian EXIF block with the given ImageDescription, XPComment and
\* UserComment bytes (each longer than four bytes, or empty for none).
ExifBlock(desc, xp, user) ==
    LET n0 == (IF desc # <<>> THEN 1 ELSE 0) + (IF user # <<>> THEN 1 ELSE 0)
              + (IF xp # <<>> THEN 1 ELSE 0)
        dOff == 8 + 2 + 12 * n0 + 4
        xOff == dOff + Len(desc)
        sOff == xOff + Len(xp)
        uOff == sOff + 18
    IN  B_Exif \o <<73, 73>> \o U16LE(42) \o U32LE(8) \o U16LE(n0)
        \o (IF desc # <<>> THEN IfdEntryBytes(TAG_ImageDescription, 2, Len(desc), dOff) ELSE <<>>)
        \o (IF user # <<>> THEN IfdEntryBytes(TAG_ExifIFD, 4, 1, sOff) ELSE <<>>)
        \o (IF xp # <<>> THEN IfdEntryBytes(TAG_XPComment, 1, Len(xp), xOff) ELSE <<>>)
        \o U32LE(0) \o desc \o xp
        \o (IF user # <<>>
            THEN U16LE(1) \o IfdEntryBytes(TAG_UserComment, 7, Len(user), uOff) \o U32LE(0) \o user
            ELSE <<>>)

Segment(marker, payload) == <<255, marker>> \o U16BE(Len(payload) + 2) \o payload

JpegSegmentChoices ==
    { Segment(225, ExifBlock(<<>>, <<>>, B_UNICODE0 \o Utf16LE(T_dogBlock))),
      Segment(225, ExifBlock(T_dogBlock, Utf16LE(T_foxBlock), B_UNICODE0 \o Utf16LE(T_negOnly))),
      Segment(225, ExifBlock(T_list, <<>>, <<>>)),
      Segment(225, XMP_STD \o T_xmlOpen \o T_foxBlock \o T_xmlClose),
      Segment(225, XMP_STD \o T_xmlOpen \o T_negOnly \o T_xmlClose),
      Segment(225, XMP_STD \o T_xmlOpen \o T_list \o <<255>> \o T_xmlClose),
      Segment(254, T_catBlock),
      Segment(254, T_negOnly),
      Segment(254, T_jsonPrompt \o <<32>>),
      Segment(228, Utf16LE(T_wideBlock)),
      Segment(228, <<32>> \o Utf16LE(T_wideBlock)),
      Segment(228, Utf16LE(T_stepsOnly)),
      Segment(229, <<10>> \o T_negOnly),
      Segment(229, T_jsonPrompt),
      Segment(229, T_jsonNumber),
      Segment(229, T_jsonArray),
      <<255, 208>> }

JpegBuffers ==
    {<<255, 216>> \o Concat(q) \o <<255, 217>> : q \in SeqsUpTo(JpegSegmentChoices, MaxSegments)}

\* a number of bytes before the text that exceeds the window of the targeted scan
FarOffset == 4100

\* n bytes "A" that are no text of interest
Fill(n) == [k \in 1..n |-> 65]

\* JPEG files with the UTF-16 bytes of T_evil in an APP4 segment, after n bytes:
\* the text is at the byte offsets 6 + n, even and odd, below and above 4096
ScanBuffers ==
    {<<255, 216>> \o Segment(228, Fill(n) \o Utf16LE(T_evil)) \o <<255, 217>> :
        n \in {0, 1, FarOffset, FarOffset + 1}}
    \cup {<<255, 216>> \o Segment(228, Fill(n) \o Utf16BE(T_evil)) \o <<255, 217>> : n \in {0, 1}}
    \cup {<<255, 216>> \o Segment(228, Fill(1) \o Utf16LE(T_evil))
                       \o Segment(228, Fill(FarOffset) \o Utf16LE(T_evil)) \o <<255, 217>>}

MaxXmpSegments == 3

B_guidA == [k \in 1..32 |-> 65]                                          \* "AAAA...A"
B_guidB == [k \in 1..32 |-> 66]                                          \* "BBBB...B"

\* an Extended XMP segment: header, GUID, declared total, offset, payload
ExtensionSegment(guid, total, offset, payload) ==
    Segment(225, XMP_EXT \o guid \o U32BE(total) \o U32BE(offset) \o payload)

\* two standard fragments; two parts of GUID A, declared total 5, whose bytes
\* "ab\xC3" at 0 and "\xA9ef" at 3 share the two bytes of U+00E9; one part of
\* GUID B, declared total 9
XmpSegmentChoices ==
    { Segment(225, XMP_STD \o <<60, 97, 47, 62>>),                        \* <a/>
      Segment(225, XMP_STD \o <<60, 98, 47, 62>>),                        \* <b/>
      ExtensionSegment(B_guidA, 5, 0, <<97, 98, 195>>),
      ExtensionSegment(B_guidA, 5, 3, <<169, 101, 102>>),
      ExtensionSegment(B_guidB, 9, 0, <<103, 104>>) }

XmpBuffers ==
    {<<255, 216>> \o Concat(q) \o <<255, 217>> : q \in SeqsUpTo(XmpSegmentChoices, MaxXmpSegments)}

Chunk(tag, data) == tag \o U32LE(Len(data)) \o data \o (IF Len(data) % 2 = 1 THEN <<0>> ELSE <<>>)

WebpChunkChoices ==
    { Chunk(B_EXIF, Slice(ExifBlock(<<>>, <<>>, B_UNICODE0 \o Utf16LE(T_dogBlock)), 6, 
                          Len(ExifBlock(<<>>, <<>>, B_UNICODE0 \o Utf16LE(T_dogBlock))))),
      Chunk(B_EXIF, ExifBlock(T_catBlock, <<>>, <<>>)),
      Chunk(B_XMP, <<239, 187, 191>> \o T_xmlOpen \o T_foxBlock \o T_xmlClose),
      Chunk(B_XMP, T_xmlOpen \o T_list \o <<255>> \o T_xmlClose),
      Chunk(B_XMP, T_xmlOpen \o T_negOnly \o T_xmlClose),
      Chunk(<<85, 84, 70, 49>>, Utf16LE(T_wideBlock)),
      Chunk(<<74, 83, 79, 78>>, T_jsonPrompt),
      Chunk(<<74, 83, 79, 78>>, T_jsonNumber) }

Riff(body) == B_RIFF \o U32LE(4 + Len(body)) \o B_WEBP \o body

WebpBuffers == {Riff(Concat(q)) : q \in SeqsUpTo(WebpChunkChoices, MaxSegments)}

PngChunk(type, data) == U32BE(Len(data)) \o type \o data \o <<0, 0, 0, 0>>

\* a deflate stream of one final stored block holding data
StoredBlockOf(data) == <<1>> \o U16LE(Len(data)) \o U16LE(65535 - Len(data)) \o data

PngChunkChoices ==
    { PngChunk(S_tEXt, B_parameters0 \o T_catBlock),
      PngChunk(S_tEXt, B_parameters0 \o T_catBlock \o T_nlSettings),
      PngChunk(S_iTXt, B_parameters0 \o <<0, 0, 0, 0>> \o T_dogBlock),
      PngChunk(S_tEXt, B_prompt0 \o T_graph),
      PngChunk(S_tEXt, T_list),
      PngChunk(S_zTXt, B_parameters0 \o <<0>> \o StoredBlockOf(T_dogBlock)),
      PngChunk(S_zTXt, B_parameters0 \o <<1>> \o StoredBlockOf(T_dogBlock)),
      PngChunk(S_zTXt, B_parameters0 \o <<0, 7>>),
      PngChunk(S_iTXt, B_parameters0 \o <<1, 0, 0, 0, 7>>),
      PngChunk(S_IEND, <<>>) }

PngBuffers == {pngSig \o Concat(q) : q \in SeqsUpTo(PngChunkChoices, MaxSegments)}

T_jsonOther == <<123,34,115,100,95,109,101,116,97,100,97,116,97,95,118,34,58,50,125>> \* {"sd_metadata_v":2}
T_jsonNote == <<123,34,110,111,116,101,34,58,34,115,100,45,109,101,116,97,100,97,116,97,34,125>> \* {"note":"sd-metadata"}
T_jsonMeta == <<123,34,115,100,45,109,101,116,97,100,97,116,97,34,58,123,34,115,116,101,112,115,34,58,50,48,125,125>> \* {"sd-metadata":{"steps":20}}
T_jsonParameters == <<123,34,115,100,95,109,101,116,97,100,97,116,97,95,118,34,58,50,44,34,112,97,114,97,109,101,116,101,114,115,34,58,34,97,32,99,97,116,34,125>> \* {"sd_metadata_v":2,"parameters":"a cat"}

\* the JSON objects that are embedded alone in a file
JsonTexts == {T_jsonOther, T_jsonNote, T_jsonMeta, T_jsonParameters, T_jsonPrompt}

\* a JPEG file and a WebP file that hold the text in a segment no reader looks at
JsonFile(t, jpeg) ==
    IF jpeg THEN <<255, 216>> \o Segment(229, t) \o <<255, 217>>
    ELSE Riff(Chunk(<<74, 83, 79, 78>>, t))

JsonBuffers == {JsonFile(t, jpeg) : t \in JsonTexts, jpeg \in BOOLEAN}

T_asciiArt == <<65,83,67,73,73,32,97,114,116,58>> \o T_dogBlock \* "ASCII art:a dog..."
T_jisNote == <<74,73,83,32,45,32>> \o T_dogBlock \* "JIS - a dog..."
T_unicodeNote == <<85,78,73,67,79,68,69,32>> \o T_dogBlock \* "UNICODE a dog..."

\* the encoding tag of a UserComment: the name padded with NULs to 8 bytes
EncodingTag(name) == name \o [k \in 1..(8 - Len(name)) |-> 0]

\* UserComment values and the text each holds: with the tag ASCII, with the tag
\* UNICODE, with the tag JIS, without a tag, and texts without a tag that begin
\* with the letters of a tag
UserComments ==
    { [bytes |-> EncodingTag(B_ASCII) \o T_dogBlock, text |-> T_dogBlock],
      [bytes |-> EncodingTag(B_UNICODE) \o Utf16LE(T_dogBlock), text |-> T_dogBlock],
      [bytes |-> EncodingTag(B_JIS) \o T_dogBlock, text |-> T_dogBlock],
      [bytes |-> T_dogBlock, text |-> T_dogBlock],
      [bytes |-> T_asciiArt, text |-> T_asciiArt],
      [bytes |-> T_jisNote, text |-> T_jisNote],
      [bytes |-> T_unicodeNote, text |-> T_unicodeNote] }

\* a JPEG file whose EXIF block has the UserComment c and no other text
CommentFile(c) == <<255, 216>> \o Segment(225, ExifBlock(<<>>, <<>>, c.bytes)) \o <<255, 217>>

CommentBuffers == {CommentFile(c) : c \in UserComments}

X_declaresUtf16 == <<60,63,120,109,108,32,101,110,99,111,100,105,110,103,61,34,117,116,102,45,49,54,34,63,62,60,120,32,112,97,114,97,109,101,116,101,114,115,61,34,97,44,32,98,44,32,99,34,32,47,62>> \* <?xml encoding="utf-16"?><x parameters="a, b, c" />
X_declaresUtf8 == <<60,63,120,109,108,32,101,110,99,111,100,105,110,103,61,34,85,84,70,45,56,34,63,62,60,120,32,112,97,114,97,109,101,116,101,114,115,61,34,97,44,32,98,44,32,99,34,47,62>> \* <?xml encoding="UTF-8"?><x parameters="a, b, c"/>
X_declaresLatin1 == <<60,63,120,109,108,32,101,110,99,111,100,105,110,103,61,34,108,97,116,105,110,49,34,63,62,60,120,32,112,97,114,97,109,101,116,101,114,115,61,34,97,44,32,98,44,32,99,34,32,47,62>> \* <?xml encoding="latin1"?><x parameters="a, b, c" />
X_declaresSjis == <<60,63,120,109,108,32,101,110,99,111,100,105,110,103,61,34,115,106,105,115,34,63,62,60,120,32,112,97,114,97,109,101,116,101,114,115,61,34,97,44,32,98,44,32,99,34,32,47,62>> \* <?xml encoding="sjis"?><x parameters="a, b, c" />

\* XMP chunks without BOM and with few NULs that declare an encoding: the
\* declared one is not the one the bytes are in, is the one, is not supported;
\* a byte that is no UTF-8 under a declaration of UTF-8
XmpDatas ==
    {X_declaresUtf16, X_declaresUtf8, X_declaresLatin1, X_declaresSjis,
     X_declaresUtf8 \o <<255, 33, 33>>}

\* a WebP file of one XMP chunk
XmpFile(data) == Riff(Chunk(B_XMP, data))

XmpChunkBuffers == {XmpFile(d) : d \in XmpDatas}

\* the XML escaping of one character and of a text, as the writer of an
\* attribute value applies it
EscapeChar(c) ==
    CASE c = 38 -> S_amp
      [] c = 60 -> S_lt
      [] c = 62 -> S_gt
      [] c = 34 -> S_quot
      [] c = 39 -> S_apos
      [] OTHER -> <<c>>

RECURSIVE htmlEscape(_)
htmlEscape(s) == IF s = <<>> THEN <<>> ELSE EscapeChar(Head(s)) \o htmlEscape(Tail(s))

T_lessThan == <<97,32,60,32,98,32,62,32,99>>                              \* a < b > c
T_quoted == <<115,97,121,32,34,104,105,34,32,38,32,39,98,121,101,39>>     \* say "hi" & 'bye'

\* attribute values before escaping: two with the five characters, and three
\* that are themselves the text of an entity
AttributeTexts == {T_lessThan, T_quoted, S_lt, S_quot, S_amp \o S_gt}

\* x, with a line feed behind it if that makes its length odd
OddLength(x) == IF Len(x) % 2 = 0 THEN x \o <<10>> ELSE x

\* the XMP text that holds the escaped value in parameters="..."
EscapedXml(s) == OddLength(T_xmlOpen \o htmlEscape(s) \o T_xmlClose)

\* a WebP file whose XMP chunk is that text
EscapedFile(s) == XmpFile(EscapedXml(s))

EscapedBuffers == {EscapedFile(s) : s \in AttributeTexts}

MaxStopSegments == 3

\* segments and markers of files in which segments follow EOI or SOS: an EXIF
\* block; two EXIF blocks with a restart marker between them; a comment; a
\* standard XMP fragment; EOI; SOS
StopChoices ==
    { Segment(225, ExifBlock(T_dogBlock, <<>>, <<>>)),
      Segment(225, ExifBlock(T_dogBlock, <<>>, <<>>)) \o <<255, 208>>
          \o Segment(225, ExifBlock(T_catBlock, <<>>, <<>>)),
      Segment(254, T_foxBlock),
      Segment(225, XMP_STD \o <<60, 97, 47, 62>>),
      <<255, 217>>,
      <<255, 218>> }

StopBuffers == {<<255, 216>> \o Concat(q) \o <<0, 0>> : q \in SeqsUpTo(StopChoices, MaxStopSegments)}

\* buffers that are no container, or a cut one
BrokenBuffers ==
    { <<>>, <<255>>, <<255, 216, 255, 225, 0>>, Slice(pngSig, 0, 7),
      Riff(<<>>), B_RIFF \o U32LE(4) \o <<87, 69, 66>>,
      <<255, 0>> \o T_catBlock,
      <<137, 80, 78, 71, 13, 10, 26, 11>> \o PngChunk(S_tEXt, B_parameters0 \o T_catBlock),
      B_RIFF \o U32LE(44) \o <<87, 69, 66, 88>>
          \o Chunk(B_XMP, T_xmlOpen \o T_foxBlock \o T_xmlClose) }

\* files whose last chunk or segment declares 100 bytes and has fewer, alone
\* or after a whole chunk or segment
TruncatedBuffers ==
    { pngSig \o first \o U32BE(100) \o S_tEXt \o B_prompt0 \o T_list :
        first \in {<<>>, PngChunk(S_tEXt, B_parameters0 \o T_catBlock)} }
    \cup { <<255, 216>> \o first \o <<255, 254>> \o U16BE(100) \o T_dogBlock :
        first \in {<<>>, Segment(254, T_catBlock)} }
    \cup { Riff(first \o B_XMP \o U32LE(100) \o T_xmlOpen \o T_negOnly \o T_xmlClose) :
        first \in {<<>>, Chunk(B_XMP, T_xmlOpen \o T_foxBlock \o T_xmlClose)} }

\* the TIFF block of an EXIF block: what follows "Exif\0\0"
TiffOf(exif) == Slice(exif, Len(B_Exif), Len(exif))

\* WebP files of one EXIF chunk: a TIFF block with an ImageDescription, cut to
\* every length, without and with "Exif\0\0" before it
ExifCutBuffers ==
    {Riff(Chunk(B_EXIF, Slice(TiffOf(ExifBlock(T_catBlock, <<>>, <<>>)), 0, n))) :
        n \in 0..Len(TiffOf(ExifBlock(T_catBlock, <<>>, <<>>)))}
    \cup {Riff(Chunk(B_EXIF, Slice(ExifBlock(T_catBlock, <<>>, <<>>), 0, n))) :
        n \in Len(B_Exif)..Len(ExifBlock(T_catBlock, <<>>, <<>>))}

Buffers == JpegBuffers \cup WebpBuffers \cup PngBuffers \cup BrokenBuffers \cup ScanBuffers
           \cup XmpBuffers \cup TruncatedBuffers \cup ExifCutBuffers \cup JsonBuffers
           \cup CommentBuffers \cup XmpChunkBuffers \cup StopBuffers \cup EscapedBuffers

Hints == { S_png, <<80, 78, 71>>,            \* "png", "PNG"
           S_jpg, <<74, 80, 69, 71>>,        \* "jpg", "JPEG"
           S_webp, <<87, 101, 98, 80>>,      \* "webp", "WebP"
           <<103, 105, 102>>, <<>> }         \* "gif", ""

Init ==
    /\ pc = "call"
    /\ walk = NoWalk
    /\ view = NoView
    /\ buf \in Buffers
    /\ ext \in Hints
    /\ threw = FALSE
    /\ format = "none"
    /\ raw = <<>>
    /\ fields = <<>>
    /\ exifTexts = <<>>
    /\ xmpXml = Null
    /\ jpegComment = Null
    /\ tryTexts = <<>>
    /\ selected = Null
    /\ rec = JNull
    /\ src = <<>>
    /\ blk = Null
    /\ blk2 = Null

\* the call returns (or throws) r
Return(r) ==
    /\ pc' = "done"
    /\ threw' = r.threw
    /\ format' = r.format
    /\ raw' = r.raw
    /\ fields' = r.fields
    /\ exifTexts' = r.exifTexts
    /\ xmpXml' = r.xmpXml
    /\ jpegComment' = r.jpegComment
    /\ tryTexts' = r.tryTexts
    /\ selected' = r.selected
    /\ rec' = r.rec
    /\ UNCHANGED <<buf, ext, locVars, walk, view>>

ParsePng ==
    /\ pc = "call"
    /\ toLowerCase(ext) = S_png
    /\ Return(parseImageMeta(buf, ext))

ParseJpeg ==
    /\ pc = "call"
    /\ toLowerCase(ext) \in {S_jpg, S_jpeg}
    /\ Return(parseImageMeta(buf, ext))

ParseWebp ==
    /\ pc = "call"
    /\ toLowerCase(ext) = S_webp
    /\ Return(parseImageMeta(buf, ext))

ParseUnknown ==
    /\ pc = "call"
    /\ toLowerCase(ext) \notin {S_png, S_jpg, S_jpeg, S_webp}
    /\ Return(parseImageMeta(buf, ext))

Next == ParsePng \/ ParseJpeg \/ ParseWebp \/ ParseUnknown

Spec == Init /\ [][Next]_vars

\* --------------------------------------------------- claims on parseImageMeta

RawHasParameters(t) == IsText(ObjGet(raw, S_parameters), t)

\* the reader recognised the container, so selection and recovery ran
Recognised ==
    \/ format = "jpeg" /\ Len(buf) >= 2 /\ buf[1] = 255 /\ buf[2] = 216
    \/ format = "webp" /\ Len(buf) >= 12 /\ Slice(buf, 0, 4) = B_RIFF /\ Slice(buf, 8, 12) = B_WEBP

\* C1: parseImageMeta never throws: for every buffer and hint it returns a
\* result whose raw values are all strings, also when a recovery scan finds
\* a JSON object whose parameters member is a number or an array.
C1_NeverThrows ==
    pc = "done" => /\ ~threw
                   /\ \A i \in 1..Len(raw) : IsStr(raw[i][2])

\* what the lower-cased hint alone decides
FormatOf(hint) ==
    LET lower == toLowerCase(hint)
    IN  IF lower = S_png THEN "png"
        ELSE IF lower \in {S_jpg, S_jpeg} THEN "jpeg"
        ELSE IF lower = S_webp THEN "webp"
        ELSE "unknown"

\* C2: the format of a returned result is decided by the lower-cased hint
\* alone (png; jpg or jpeg; webp; anything else is unknown), and a result of
\* format unknown has empty fields and an empty raw map.
C2_FormatByHint ==
    (pc = "done" /\ ~threw) =>
        /\ format = FormatOf(ext)
        /\ format = "unknown" => (fields = <<>> /\ raw = <<>>)

\* C2 happens: the hint "JPEG" is read as jpeg and the reader found texts.
C2_UpperCaseHint ==
    /\ pc = "done" /\ ~threw
    /\ ext = <<74, 80, 69, 71>>
    /\ format = "jpeg"
    /\ raw # <<>>

\* the candidates of the selection: the positions of tryTexts that give a block
Candidates == {i \in 1..Len(tryTexts) : CandidateBlock(tryTexts[i]) # Null}
BlockAt(i) == CandidateBlock(tryTexts[i])
ScoreAt(i) == scoreA1111Block(BlockAt(i))

\* C8: the candidate texts are the EXIF texts, then the XMP attribute values,
\* then the whole XMP text, then the JPEG comment; the selected block is the
\* one of the highest score, and among equal scores the earliest in that order
\* (a later candidate wins only with a strictly higher score).
C8_HighestScoreEarliestSource ==
    (pc = "done" /\ Recognised) =>
        /\ tryTexts = exifTexts
                \o (IF xmpXml # Null /\ xmpXml # <<>>
                    THEN extractFromXmpAttributes(xmpXml) \o <<xmpXml>> ELSE <<>>)
                \o (IF jpegComment # Null /\ jpegComment # <<>> THEN <<jpegComment>> ELSE <<>>)
        /\ IF Candidates = {} THEN selected = Null
           ELSE \E i \in Candidates :
                    /\ selected = BlockAt(i)
                    /\ \A j \in Candidates : ScoreAt(j) <= ScoreAt(i)
                    /\ \A j \in Candidates : j < i => ScoreAt(j) < ScoreAt(i)

\* C8 happens: UserComment, XPComment and ImageDescription all give a block;
\* XPComment beats the lower score of UserComment, and ImageDescription and
\* the JPEG comment, which score the same as XPComment, do not replace it.
C8_TieKeepsEarlier ==
    /\ pc = "done" /\ format = "jpeg"
    /\ exifTexts = <<T_negOnly, T_foxBlock, T_dogBlock>>
    /\ jpegComment = T_catBlock
    /\ Candidates = 1..4
    /\ ScoreAt(1) < ScoreAt(2) /\ ScoreAt(2) = ScoreAt(3) /\ ScoreAt(3) = ScoreAt(4)
    /\ selected = T_foxBlock

\* the first value of a list of scan results that is truthy, or null
FirstYield(vals) ==
    IF \E i \in 1..Len(vals) : Truthy(vals[i])
    THEN vals[CHOOSE i \in 1..Len(vals) : Truthy(vals[i]) /\ \A j \in 1..(i - 1) : ~Truthy(vals[j])]
    ELSE JNull

JsonScan == scanWholeFileForMeta(buf)
TargetedScan == TextValue(scanFileForSdText(buf))
WholeUtf16Scan == TextValue(scanWholeFileForUtf16A1111(buf))
WholeSjisScan == TextValue(scanWholeFileForSjisA1111(buf))

RecoveryRuns == Recognised /\ (selected = Null \/ looksGarbled(selected))

Garbled(s) ==
    LET above == Cardinality({k \in 1..Len(s) : s[k] > 126})
        letters == Cardinality({k \in 1..Len(s) : s[k] \in 65..90 \/ s[k] \in 97..122})
    IN  \/ \E k \in 1..Len(s) : s[k] \in {65533, 0}
        \/ 2 * above > Len(s) /\ 10 * letters < Len(s)

AllScansFail == ~Truthy(TargetedScan) /\ ~Truthy(WholeUtf16Scan) /\ ~Truthy(WholeSjisScan)

\* C10: in the JPEG and the WebP reader raw["parameters"] differs from the
\* selected block only when nothing was selected or the selection looks
\* garbled: a selection that does not look garbled is returned as it is and no
\* recovery runs for it; a garbled selection is returned as it is when every
\* recovery step fails.
C10_RecoveryOnlyWhenAbsentOrGarbled ==
    (pc = "done" /\ Recognised /\ selected # Null) =>
        /\ ~Garbled(selected) => (RawHasParameters(selected) /\ IsNull(rec))
        /\ (Garbled(selected) /\ AllScansFail) => RawHasParameters(selected)
        /\ ~RawHasParameters(selected) => (Garbled(selected) /\ ~AllScansFail)

\* C10 happens: a block that does not look garbled was selected in a file on
\* which a recovery scan would yield a text, and the block is what is returned.
C10_SelectionKept ==
    /\ pc = "done" /\ Recognised
    /\ selected # Null /\ ~Garbled(selected)
    /\ ~AllScansFail
    /\ RawHasParameters(selected)

\* the buffer holds the UTF-16 bytes, of either byte order, of T_evil
HoldsWideText == Includes(buf, Utf16LE(T_evil)) \/ Includes(buf, Utf16BE(T_evil))

\* C11: for a JPEG with nothing selected (and nothing for the JSON scan) that
\* holds the UTF-16LE or UTF-16BE bytes of "Negative prompt: evil\nSteps: 99"
\* at any byte offset, odd or even, below or above 4096, the targeted scan
\* reads the label in its window and raw["parameters"] contains that text.
C11_TargetedScanAnyOffset ==
    (pc = "done" /\ format = "jpeg" /\ Recognised /\ selected = Null
        /\ ~Truthy(JsonScan) /\ HoldsWideText) =>
            /\ Truthy(TargetedScan) /\ Includes(TargetedScan.v, T_evil)
            /\ ObjHas(raw, S_parameters)
            /\ IsStr(ObjGet(raw, S_parameters))
            /\ Includes(ObjGet(raw, S_parameters).v, T_evil)

\* the segments of a JPEG file from off: marker and payload of each
RECURSIVE FileSegments(_, _)
FileSegments(u8, off) ==
    IF off + 4 > Len(u8) \/ At(u8, off) # 255 \/ At(u8, off + 1) \in {217, 218} THEN <<>>
    ELSE IF At(u8, off + 1) \in 208..215 THEN FileSegments(u8, off + 2)
    ELSE LET end == off + 2 + 256 * At(u8, off + 2) + At(u8, off + 3)
         IN  IF end < off + 4 \/ end > Len(u8) THEN <<>>
             ELSE <<[marker |-> At(u8, off + 1), payload |-> Slice(u8, off + 4, end)]>>
                  \o FileSegments(u8, end)

\* the standard XMP fragments of the file, in file order
StandardFragments ==
    LET segs == SelectSeq(FileSegments(buf, 2),
                          LAMBDA g : g.marker = 225 /\ startsWith(g.payload, XMP_STD))
    IN  [i \in 1..Len(segs) |-> strFromU8(Slice(segs[i].payload, Len(XMP_STD), Len(segs[i].payload)))]

\* the Extended XMP segments of the file, in file order
ExtensionSegments ==
    LET segs == SelectSeq(FileSegments(buf, 2),
                          LAMBDA g : /\ g.marker = 225 /\ startsWith(g.payload, XMP_EXT)
                                     /\ Len(g.payload) >= Len(XMP_EXT) + 40)
        Rest(i) == Slice(segs[i].payload, Len(XMP_EXT), Len(segs[i].payload))
    IN  [i \in 1..Len(segs) |->
            [guid |-> Slice(Rest(i), 0, 32),
             total |-> u32(Rest(i), FALSE, 32),
             offset |-> u32(Rest(i), FALSE, 36),
             payload |-> Slice(Rest(i), 40, Len(Rest(i)))]]

\* the segments of one GUID have distinct offsets and the same declared total
DistinctOffsetsSameTotal ==
    \A i, j \in 1..Len(ExtensionSegments) :
        (i # j /\ ExtensionSegments[i].guid = ExtensionSegments[j].guid) =>
            /\ ExtensionSegments[i].offset # ExtensionSegments[j].offset
            /\ ExtensionSegments[i].total = ExtensionSegments[j].total

\* the payloads of the parts P (positions of ExtensionSegments), by ascending offset
RECURSIVE ByAscendingOffset(_)
ByAscendingOffset(P) ==
    IF P = {} THEN <<>>
    ELSE LET first == CHOOSE i \in P : \A j \in P : ExtensionSegments[i].offset <= ExtensionSegments[j].offset
         IN  ExtensionSegments[first].payload \o ByAscendingOffset(P \ {first})

\* the assembled bytes of the GUID of part i
AssembledBytes(i) ==
    LET all == ByAscendingOffset({j \in 1..Len(ExtensionSegments) :
                                     ExtensionSegments[j].guid = ExtensionSegments[i].guid})
    IN  Slice(all, 0, Min({ExtensionSegments[i].total, Len(all)}))

\* the assembled text of every GUID, the GUIDs in the order of their first part
RECURSIVE AssembledFrom(_)
AssembledFrom(i) ==
    IF i > Len(ExtensionSegments) THEN <<>>
    ELSE (IF \E j \in 1..(i - 1) : ExtensionSegments[j].guid = ExtensionSegments[i].guid
          THEN <<>> ELSE strFromU8(AssembledBytes(i)))
         \o AssembledFrom(i + 1)

\* C12: the bytes of each Extended XMP GUID are its payloads by ascending
\* declared offset, cut to min(declared total, sum of the payload lengths),
\* whatever the order of the segments in the file; the XMP text, and
\* raw["XMP"], is the standard fragments in file order followed by the
\* assembled extended text.
C12_ExtendedXmpByOffset ==
    (pc = "done" /\ format = "jpeg" /\ Recognised /\ DistinctOffsetsSameTotal) =>
        /\ xmpXml = IF StandardFragments = <<>> /\ ExtensionSegments = <<>> THEN Null
                    ELSE Concat(StandardFragments) \o AssembledFrom(1)
        /\ IF xmpXml # Null /\ xmpXml # <<>> THEN IsText(ObjGet(raw, S_XMP), xmpXml)
           ELSE ~ObjHas(raw, S_XMP)

\* C12 happens: the part at offset 3 precedes the part at offset 0 in the
\* file, a standard fragment lies between them, and the text is "<a/>ab\u00E9e":
\* the six bytes by ascending offset, cut to the declared total 5.
C12_PartsOutOfOrder ==
    /\ pc = "done" /\ format = "jpeg"
    /\ Len(ExtensionSegments) = 2
    /\ ExtensionSegments[1].guid = ExtensionSegments[2].guid
    /\ ExtensionSegments[1].offset > ExtensionSegments[2].offset
    /\ Len(StandardFragments) = 1
    /\ IsText(ObjGet(raw, S_XMP), <<60, 97, 47, 62, 97, 98, 233, 101>>)

\* the chunks of a PNG file from off, up to IEND: type and data of each; a
\* chunk whose declared length runs past the end of the file is the last, has
\* the bytes that are there and is not whole
RECURSIVE FileChunks(_, _)
FileChunks(u8, off) ==
    IF off + 8 > Len(u8) THEN <<>>
    ELSE LET len == u32(u8, FALSE, off)
             type == Slice(u8, off + 4, off + 8)
         IN  IF off + 8 + len > Len(u8)
             THEN <<[type |-> type, data |-> Slice(u8, off + 8, Len(u8)), whole |-> FALSE]>>
             ELSE <<[type |-> type, data |-> Slice(u8, off + 8, off + 8 + len), whole |-> TRUE]>>
                  \o (IF type = S_IEND THEN <<>> ELSE FileChunks(u8, off + 8 + len + 4))

PngRecognised == format = "png" /\ Len(buf) >= 8 /\ Slice(buf, 0, 8) = pngSig

\* the compressed text of a zTXt chunk (after keyword and method) or of an
\* iTXt chunk (after keyword, flags, language tag and translated keyword)
CompressedText(c) ==
    IF c.type = S_zTXt THEN Slice(c.data, IndexOf(c.data, <<0>>) + 2, Len(c.data))
    ELSE LET k == IndexOf(c.data, <<0>>)
             l == IndexOfFrom(c.data, <<0>>, k + 3)
             t == IndexOfFrom(c.data, <<0>>, l + 1)
         IN  Slice(c.data, t + 1, Len(c.data))

\* a keyworded zTXt chunk whose method is not 0 or whose text does not
\* inflate, or a keyworded compressed iTXt chunk whose text does not inflate
FailsToDecode(c) ==
    /\ IndexOf(c.data, <<0>>) > 0
    /\ \/ /\ c.type = S_zTXt
          /\ \/ ByteAt(c.data, IndexOf(c.data, <<0>>) + 1) # 0
             \/ ~inflateSync(CompressedText(c)).ok
       \/ /\ c.type = S_iTXt
          /\ ByteAt(c.data, IndexOf(c.data, <<0>>) + 1) # 0
          /\ ~inflateSync(CompressedText(c)).ok

\* raw after the chunks cs
RECURSIVE RawOfChunks(_, _)
RawOfChunks(cs, rw) ==
    IF cs = <<>> THEN rw
    ELSE RawOfChunks(Tail(cs), PutText(rw, ChunkText(Head(cs).type, Head(cs).data)))

\* C13: a zTXt or compressed iTXt chunk that fails to inflate, or a zTXt
\* chunk whose method is not 0, is skipped: raw is what the other chunks
\* give, with no entry, and no empty entry, for the skipped chunk, and with
\* what an earlier chunk stored under the same key.
C13_FailedInflateSkipped ==
    (pc = "done" /\ PngRecognised /\ \A i \in 1..Len(FileChunks(buf, 8)) : FileChunks(buf, 8)[i].whole) =>
        raw = RawOfChunks(SelectSeq(FileChunks(buf, 8), LAMBDA c : ~FailsToDecode(c)), <<>>)

\* where the first JPEG segment that runs past the end of the file starts (-1: none)
RECURSIVE JpegCut(_, _)
JpegCut(u8, off) ==
    IF off + 4 > Len(u8) \/ At(u8, off) # 255 \/ At(u8, off + 1) \in {217, 218} THEN -1
    ELSE IF At(u8, off + 1) \in 208..215 THEN JpegCut(u8, off + 2)
    ELSE IF 256 * At(u8, off + 2) + At(u8, off + 3) < 2 THEN -1
    ELSE IF off + 2 + 256 * At(u8, off + 2) + At(u8, off + 3) > Len(u8) THEN off
    ELSE JpegCut(u8, off + 2 + 256 * At(u8, off + 2) + At(u8, off + 3))

\* where the first WebP chunk that runs past the end of the file starts (-1: none)
RECURSIVE WebpCut(_, _)
WebpCut(u8, off) ==
    IF off + 8 > Len(u8) THEN -1
    ELSE IF off + 8 + u32(u8, TRUE, off + 4) > Len(u8) THEN off
    ELSE WebpCut(u8, off + 8 + u32(u8, TRUE, off + 4) + (u32(u8, TRUE, off + 4) % 2))

\* the last chunk of the PNG file runs past the end of the file
PngTruncated ==
    /\ PngRecognised
    /\ FileChunks(buf, 8) # <<>>
    /\ ~FileChunks(buf, 8)[Len(FileChunks(buf, 8))].whole

JpegTruncated == format = "jpeg" /\ Recognised /\ JpegCut(buf, 2) >= 0
WebpTruncated == format = "webp" /\ Recognised /\ WebpCut(buf, 12) >= 0

\* what the walk of a reader collected
Collected(r) == <<r.exifTexts, r.xmpXml, r.jpegComment>>

\* C14 for PNG: the chunk that runs past the end adds nothing to raw
C14_PngPart ==
    (pc = "done" /\ PngTruncated) =>
        raw = RawOfChunks(SelectSeq(FileChunks(buf, 8), LAMBDA c : c.whole), <<>>)

\* C14 for JPEG: what was collected is what the file without the segment
\* that runs past the end gives
C14_JpegPart ==
    (pc = "done" /\ JpegTruncated) =>
        <<exifTexts, xmpXml, jpegComment>> = Collected(parseJpeg(Slice(buf, 0, JpegCut(buf, 2))))

\* C14 for WebP: what was collected is what the file without the chunk that
\* runs past the end gives
C14_WebpPart ==
    (pc = "done" /\ WebpTruncated) =>
        <<exifTexts, xmpXml, jpegComment>> = Collected(parseWebp(Slice(buf, 0, WebpCut(buf, 12))))

\* C14: in the PNG, JPEG and WebP walk a chunk or segment whose declared
\* length runs past the end of the buffer stops the walk and contributes
\* nothing, and what the earlier chunks gave is kept.
C14_TruncatedStopsWalk == C14_PngPart /\ C14_JpegPart /\ C14_WebpPart

\* the buffer starts with the signature of the container that the hint names
SignatureMatches ==
    CASE FormatOf(ext) = "png" -> Len(buf) >= 8 /\ Slice(buf, 0, 8) = pngSig
      [] FormatOf(ext) = "jpeg" -> Len(buf) >= 2 /\ Slice(buf, 0, 2) = <<255, 216>>
      [] FormatOf(ext) = "webp" ->
            Len(buf) >= 12 /\ Slice(buf, 0, 4) = B_RIFF /\ Slice(buf, 8, 12) = B_WEBP
      [] OTHER -> FALSE

\* C15: a buffer, the empty one included, that does not start with the
\* signature of the hinted container gives the hinted format with empty
\* fields and an empty raw; nothing is walked and no recovery scan runs,
\* whatever text the bytes hold.
C15_SignatureMismatchEmpty ==
    (pc = "done" /\ FormatOf(ext) # "unknown" /\ ~SignatureMatches) =>
        /\ ~threw
        /\ format = FormatOf(ext)
        /\ fields = <<>> /\ raw = <<>>
        /\ tryTexts = <<>> /\ exifTexts = <<>> /\ xmpXml = Null /\ jpegComment = Null
        /\ selected = Null /\ IsNull(rec)

\* C15 happens: a PNG file holding a parameters text is read with the hint
\* jpg; the recovery scans would find the text, and the result is empty.
C15_PngReadAsJpeg ==
    /\ pc = "done" /\ format = "jpeg" /\ ~SignatureMatches
    /\ Len(buf) >= 8 /\ Slice(buf, 0, 8) = pngSig
    /\ Truthy(WholeSjisScan)
    /\ raw = <<>> /\ fields = <<>>

\* the graph of the prompt chunk, as parsed
ComfyGraph == ObjGet(fields, S_prompt_json)

\* the nodes of the graph whose class_type starts with KSampler
SamplerNodes ==
    {i \in 1..Len(ComfyGraph.v) :
        LET c == Prop(ComfyGraph.v[i][2], S_class_type)
        IN  IsStr(c) /\ StartsWithText(c.v, S_KSampler)}

\* a recognised graph with a sampler node
GraphWithSampler ==
    /\ pc = "normalized"
    /\ ComfyGraph.t = "obj"
    /\ SamplerNodes # {}

\* the node that the sampler's input of the given name refers to
ReferencedNode(name) ==
    LET conn == Prop(Prop(ComfyGraph.v[Min(SamplerNodes)][2], S_inputs), name)
    IN  IF conn.t = "arr" /\ conn.v # <<>> THEN Prop(ComfyGraph, JsString(conn.v[1]))
        ELSE IF conn.t \in {"str", "num"} THEN Prop(ComfyGraph, JsString(conn))
        ELSE Undefined

\* the text of a node: inputs.text when a string, otherwise text_g and
\* text_l, whichever are strings, joined by one space; Null when none is
ResolvedText(node) ==
    LET inp == Prop(node, S_inputs)
        g == Prop(inp, S_text_g)
        l == Prop(inp, S_text_l)
    IN  IF IsStr(Prop(inp, S_text)) THEN Prop(inp, S_text).v
        ELSE IF IsStr(g) /\ IsStr(l) THEN g.v \o <<32>> \o l.v
        ELSE IF IsStr(g) THEN g.v
        ELSE IF IsStr(l) THEN l.v
        ELSE Null

\* C16: when a recognised ComfyUI graph has a node whose class_type starts
\* with KSampler, fields["generator"] is "ComfyUI", and the text resolved for
\* positive (negative), the empty text included, is fields["prompt"]
\* (fields["negative_prompt"]), whatever the parameters text or a raw prompt
\* key put there.
C16_ComfyPromptsReplace ==
    GraphWithSampler =>
        /\ IsText(ObjGet(fields, S_generator), S_ComfyUI)
        /\ ResolvedText(ReferencedNode(S_positive)) # Null =>
               IsText(ObjGet(fields, S_prompt), ResolvedText(ReferencedNode(S_positive)))
        /\ ResolvedText(ReferencedNode(S_negative)) # Null =>
               IsText(ObjGet(fields, S_negative_prompt), ResolvedText(ReferencedNode(S_negative)))

\* the data of the last EXIF chunk of a WebP file from off (Null: none)
RECURSIVE LastExifChunk(_, _, _)
LastExifChunk(u8, off, last) ==
    IF off + 8 > Len(u8) \/ off + 8 + u32(u8, TRUE, off + 4) > Len(u8) THEN last
    ELSE LET size == u32(u8, TRUE, off + 4)
         IN  LastExifChunk(u8, off + 8 + size + (size % 2),
                           IF Slice(u8, off, off + 4) = B_EXIF
                           THEN Slice(u8, off + 8, off + 8 + size) ELSE last)

\* the chunks of a WebP file from off, with "Exif\0\0" put before the data of
\* every EXIF chunk that starts at a TIFF header
RECURSIVE HeaderedChunks(_, _)
HeaderedChunks(u8, off) ==
    IF off + 8 > Len(u8) \/ off + 8 + u32(u8, TRUE, off + 4) > Len(u8)
    THEN Slice(u8, off, Len(u8))
    ELSE LET size == u32(u8, TRUE, off + 4)
             data == Slice(u8, off + 8, off + 8 + size)
             next == off + 8 + size + (size % 2)
         IN  (IF Slice(u8, off, off + 4) = B_EXIF
                    /\ (startsWith(data, <<73, 73, 42, 0>>) \/ startsWith(data, <<77, 77, 0, 42>>))
              THEN Chunk(B_EXIF, B_Exif \o data)
              ELSE JsSlice(u8, off, next))
             \o HeaderedChunks(u8, next)

\* the WebP file read, with "Exif\0\0" before its TIFF blocks
Headered == parseWebp(Riff(HeaderedChunks(buf, 12)))

\* the JPEG file whose APP1 segment is "Exif\0\0" and the TIFF block of the
\* WebP file read
AsJpeg ==
    parseJpeg(<<255, 216>> \o Segment(225, B_Exif \o LastExifChunk(buf, 12, Null)) \o <<255, 217>>)

\* the WebP file read has an EXIF chunk that starts at a TIFF header
BareTiffChunk ==
    /\ pc = "done" /\ format = "webp" /\ Recognised
    /\ LastExifChunk(buf, 12, Null) # Null
    /\ \/ startsWith(LastExifChunk(buf, 12, Null), <<73, 73, 42, 0>>)
       \/ startsWith(LastExifChunk(buf, 12, Null), <<77, 77, 0, 42>>)

\* C17 as stated: a WebP EXIF chunk that starts at the TIFF header gives the
\* same EXIF texts, raw and fields as the chunk with "Exif\0\0" before the
\* TIFF block, and the EXIF texts of the JPEG reader, for every length of the
\* TIFF block.
C17_ExifHeaderSameResult ==
    BareTiffChunk =>
        /\ exifTexts = Headered.exifTexts
        /\ exifTexts = AsJpeg.exifTexts
        /\ threw = Headered.threw
        /\ raw = Headered.raw
        /\ fields = Headered.fields

\* C17 without the recovered value: the EXIF texts and raw["EXIF"] are the
\* same, and the EXIF texts are those of the JPEG reader, for every length of
\* the TIFF block; raw and fields are the same when neither reading takes
\* raw["parameters"] from a recovery scan.
C17_ExifTextsSameRawUnlessRecovered ==
    BareTiffChunk =>
        /\ exifTexts = Headered.exifTexts
        /\ exifTexts = AsJpeg.exifTexts
        /\ SameValue(ObjGet(raw, S_EXIF), ObjGet(Headered.raw, S_EXIF))
        /\ (~Truthy(rec) /\ ~Truthy(Headered.rec)) =>
              /\ threw = Headered.threw
              /\ raw = Headered.raw
              /\ fields = Headered.fields

\* C17 happens: the chunk holds the whole TIFF block, without the header; its
\* ImageDescription is read and selected, as from the chunk with the header.
C17_DescriptionOfBareTiff ==
    /\ BareTiffChunk
    /\ buf \in ExifCutBuffers
    /\ exifTexts = <<T_catBlock>>
    /\ Headered.exifTexts = <<T_catBlock>>
    /\ RawHasParameters(T_catBlock)
    /\ fields # <<>>

\* ------------------------------------------------ Forge converter harness

T_catOnMat == <<97,32,99,97,116,10,111,110,32,97,32,109,97,116>>                \* "a cat\non a mat"
\* sixty U+4E00: code units whose low byte is zero
T_ones == [k \in 1..60 |-> 19968]
T_blurryLow == <<98,108,117,114,114,121,10,108,111,119,32,113,117,97,108,105,116,121>> \* "blurry\nlow quality"
T_blurrySteps == <<98,108,117,114,114,121,10,115,116,101,112,115,58,32,118,105,115,105,98,108,101>> \* "blurry\nsteps: visible"
T_Euler == <<69,117,108,101,114>>                                       \* "Euler"
T_EulerA == <<69,117,108,101,114,32,97>>                                \* "Euler a"
T_sd15 == <<115,100,49,53>>                                             \* "sd15"

\* metadata objects in which prompt, negative prompt, steps, sampler, cfg,
\* seed, width, height and model are all set, under either spelling of the keys
ForgeObjects ==
    { << <<keys[1], Str(p)>>, <<keys[2], Str(n)>>, <<S_steps, steps>>,
         <<S_sampler, Str(sampler)>>, <<keys[3], Num(7)>>, <<S_seed, Num(seed)>>,
         <<S_width, Num(512)>>, <<S_height, Num(768)>>, <<S_model, Str(T_sd15)>> >> :
        keys \in {<<S_prompt, S_negativePrompt, S_cfgScale>>,
                  <<S_Prompt, S_NegativePrompt, S_cfg>>},
        p \in {T_cat, T_catOnMat, T_ones},
        n \in {T_blurry, T_blurryLow, T_blurrySteps},
        steps \in {Num(20), Num(8)},
        sampler \in {T_Euler, T_EulerA},
        seed \in {0, 42} }

InitForge ==
    /\ pc = "forge"
    /\ walk = NoWalk
    /\ view = NoView
    /\ raw \in ForgeObjects
    /\ src = <<>>
    /\ blk = Null
    /\ blk2 = Null
    /\ fields = <<>>
    /\ buf = <<>>
    /\ ext = <<>>
    /\ threw = FALSE
    /\ format = "none"
    /\ exifTexts = <<>>
    /\ xmpXml = Null
    /\ jpegComment = Null
    /\ tryTexts = <<>>
    /\ selected = Null
    /\ rec = JNull

\* the converter is applied to the metadata object, and its text goes to the locator
Forge ==
    /\ pc = "forge"
    /\ src' = forgeMetadataToParameters(Obj(raw))
    /\ pc' = "locate"
    /\ UNCHANGED <<blk, blk2, normVars, callVars, walk, view>>

NextForge == Forge \/ Locate \/ Relocate

SpecForge == InitForge /\ [][NextForge]_vars

\* the text was converted from a metadata object and the locator was applied to it
ForgedAndLocated == pc \in {"relocate", "located"} /\ raw \in ForgeObjects

\* C18: for a metadata object with prompt, negative prompt, steps, sampler,
\* cfg, seed, width, height and model all set, the locator applied to the
\* text of the converter returns exactly that text, also when the prompt or
\* the negative prompt has several lines.
C18_LocatorKeepsForgedText == ForgedAndLocated => blk = src

\* ---------------------------------------------------------------- the loops, one iteration at a time

\* a loop of the given kind whose read offset starts at off
StartWalk(loop, off) ==
    [loop |-> loop, at |-> "test", start |-> off, off |-> off, prev |-> off, depth |-> 0,
     steps |-> 0, done |-> FALSE]

\* an iteration begins: prev keeps the offset it began at
Enter(w) == [w EXCEPT !.prev = w.off]

\* the iteration ends with the read offset at off and the loop goes on
Advance(w, off) == [w EXCEPT !.off = off, !.at = "test", !.steps = @ + 1]

\* the loop is left (its condition fails, or break) with the read offset at off
Exit(w, off) == [w EXCEPT !.off = off, !.at = "test", !.steps = @ + 1, !.done = TRUE]

\* const len = readU32(u8, off); off += 4; ... off += 4; ... off += len; off += 4
PngNextOffsetNoHeader(off, len) == off + len

PngNextOffset(off, len) == off + 4 + 4 + len + 4

\* one iteration of the chunk loop of parsePng
PngBody(u8, w, isEnd) ==
    IF isEnd THEN Exit(w, PngNextOffset(w.off, readU32(u8, w.off)))
    ELSE Advance(w, PngNextOffset(w.off, readU32(u8, w.off)))

PngIteration(u8, w) ==
    IF w.off + 8 > Len(u8) THEN Exit(w, w.off)
    ELSE PngBody(u8, Enter(w), strFromU8(Slice(u8, w.off + 4, w.off + 8)) = S_IEND)

\* the segment loop of parseJpeg up to the fill bytes
JpegTest(u8, w) ==
    IF w.off + 4 > Len(u8) THEN Exit(w, w.off)
    ELSE IF At(u8, w.off) # 255 THEN Advance(Enter(w), w.off + 1)
    ELSE [Enter(w) EXCEPT !.at = "fill", !.steps = @ + 1]

\* the segment of length seglen whose marker is at m
JpegLength(u8, w, m, seglen) ==
    IF seglen < 2 \/ m + 3 + seglen - 2 > Len(u8) THEN Exit(w, m + 3)
    ELSE Advance(w, m + 3 + seglen - 2)

\* the rest of the iteration: the marker at m and its segment
JpegMarker(u8, w, m) ==
    IF m >= Len(u8) THEN Exit(w, m)
    ELSE IF At(u8, m) \in {217, 218} THEN Exit(w, m + 1)
    ELSE IF At(u8, m) \in 208..215 THEN Advance(w, m + 1)
    ELSE IF m + 3 > Len(u8) THEN Exit(w, m + 1)
    ELSE JpegLength(u8, w, m, 256 * At(u8, m + 1) + At(u8, m + 2))

\* while (off < u8.length && u8[off] === 0xff) off++, one iteration
JpegFill(u8, w) ==
    IF w.off < Len(u8) /\ At(u8, w.off) = 255
    THEN [w EXCEPT !.off = @ + 1, !.steps = @ + 1]
    ELSE JpegMarker(u8, w, w.off)

\* one iteration of the chunk loop of parseWebp
WebpSize(u8, w, size) ==
    IF w.off + 8 + size > Len(u8) THEN Exit(w, w.off + 8)
    ELSE Advance(w, w.off + 8 + size + (size % 2))

WebpIteration(u8, w) ==
    IF w.off + 8 > Len(u8) THEN Exit(w, w.off)
    ELSE WebpSize(u8, Enter(w), u32(u8, TRUE, w.off + 4))

\* the byte order of the TIFF data behind "Exif\0\0"
IsLE(data) == Slice(data, 6, 8) = <<73, 73>>

\* ifd0 = base + u32(base + 4)
Ifd0(data) == 6 + u32(data, IsLE(data), 10)

\* the entry loop of readIFD(off): the read offset is e = p + i * 12, p = off + 2
IfdStart(data, off) ==
    IF off <= 0 \/ off + 2 > Len(data) THEN [StartWalk("ifd", off) EXCEPT !.done = TRUE]
    ELSE StartWalk("ifd", off + 2)

\* one iteration of the entry loop: i < count, and e + 12 > data.length breaks
IfdIteration(data, w) ==
    IF (w.off - w.start) \div 12 >= u16(data, IsLE(data), w.start - 2) THEN Exit(w, w.off)
    ELSE IF w.off + 12 > Len(data) THEN Exit(w, w.off)
    ELSE Advance(Enter(w), w.off + 12)

\* st: the brace loop's state after the character at the read offset
BraceAfter(w, st) ==
    IF st.end > 0 THEN [Exit(w, st.end) EXCEPT !.depth = st.depth]
    ELSE [Advance(w, st.i) EXCEPT !.depth = st.depth]

\* one iteration of the brace loop: for (let i = startBrace; i < text.length; i++)
BraceIteration(text, w) ==
    IF w.off >= Len(text) THEN Exit(w, w.off)
    ELSE BraceAfter(Enter(w), BraceStep(text, [i |-> w.off, depth |-> w.depth, end |-> 0]))

\* the pieces the walked buffers are made of
MaxPieces == 3
MaxBraceLen == 4

PngPieces ==
    { <<0, 0, 0, 0>> \o S_tEXt \o <<0, 0, 0, 0>>,             \* a chunk of length zero
      <<0, 0, 0, 1, 73, 68, 65, 84, 9, 0, 0, 0, 0>>,          \* IDAT, one byte
      <<0, 0, 0, 0>> \o S_IEND \o <<0, 0, 0, 0>>,
      <<127, 0, 0, 0>> \o S_tEXt,                             \* a length far past the end
      <<0, 0, 0>> }                                           \* less than a chunk header

JpegPieces ==
    { <<255>>,                                                \* a fill byte
      <<255, 208>>,                                           \* a restart marker
      <<255, 225, 0, 2>>,                                     \* a segment without payload
      <<255, 225, 0, 0>>,                                     \* a length below 2
      <<255, 254, 255, 255>>,                                 \* a length far past the end
      <<255, 254, 0, 4, 65, 66>>,
      <<0>>,                                                  \* a byte that is no marker
      <<255, 217>> }

WebpPieces ==
    { <<74, 85, 78, 75, 0, 0, 0, 0>>,                         \* a chunk of size zero
      <<69, 88, 73, 70, 1, 0, 0, 0, 7, 0>>,                   \* an odd size and its padding
      <<69, 88, 73, 70, 1, 0, 0, 0, 7>>,                      \* an odd size without padding
      <<88, 77, 80, 32, 2, 0, 0, 0, 60, 62>>,
      <<74, 85, 78, 75, 0, 0, 0, 127>>,                       \* a size far past the end
      <<82, 73>> }                                            \* less than a chunk header

\* an IFD entry: ImageDescription, ASCII, one byte
DescriptionEntry(isLE) ==
    IF isLE THEN <<14, 1, 2, 0, 1, 0, 0, 0, 97, 0, 0, 0>>
    ELSE <<1, 14, 0, 2, 0, 0, 0, 1, 97, 0, 0, 0>>

RECURSIVE Repeat(_, _)
Repeat(s, n) == IF n = 0 THEN <<>> ELSE s \o Repeat(s, n - 1)

\* "Exif\0\0", a TIFF header whose IFD offset field holds the bytes ifd, an entry
\* count and n entries
ExifOf(isLE, ifd, count, n, tail) ==
    B_Exif \o (IF isLE THEN <<73, 73, 42, 0>> ELSE <<77, 77, 0, 42>>) \o ifd \o count
    \o Repeat(DescriptionEntry(isLE), n) \o tail

IfdBuffers ==
    {ExifOf(isLE, ifd, count, n, tail) :
        isLE \in BOOLEAN,
        ifd \in {<<8, 0, 0, 0>>, <<0, 0, 0, 8>>, <<0, 0, 0, 0>>, <<0, 255, 255, 127>>},
        count \in {<<0, 0>>, <<1, 0>>, <<0, 1>>, <<2, 0>>, <<0, 2>>, <<255, 255>>},
        n \in 0..MaxPieces,
        tail \in {<<>>, <<14, 1, 2, 0, 1>>}}

BraceTexts == {Concat(q) : q \in SeqsUpTo({<<123>>, <<125>>, <<97>>}, MaxBraceLen)}

\* the loops at their first iteration: parsePng, parseJpeg and parseWebp enter
\* theirs behind the signature, readIFD at ifd0, the brace loop at an open brace
WalkInputs ==
    {[buf |-> pngSig \o Concat(q), text |-> <<>>, walk |-> StartWalk("png", 8)] :
        q \in SeqsUpTo(PngPieces, MaxPieces)}
    \cup {[buf |-> <<255, 216>> \o Concat(q), text |-> <<>>, walk |-> StartWalk("jpeg", 2)] :
        q \in SeqsUpTo(JpegPieces, MaxPieces)}
    \cup {[buf |-> B_RIFF \o <<0, 0, 0, 0>> \o B_WEBP \o Concat(q), text |-> <<>>,
           walk |-> StartWalk("webp", 12)] :
        q \in SeqsUpTo(WebpPieces, MaxPieces)}
    \cup {[buf |-> b, text |-> <<>>, walk |-> IfdStart(b, Ifd0(b))] : b \in IfdBuffers}
    \cup UNION {{[buf |-> <<>>, text |-> t, walk |-> StartWalk("brace", i)] :
                    i \in {k \in 0..(Len(t) - 1) : At(t, k) = 123}} : t \in BraceTexts}

InitWalk ==
    /\ pc = "walk"
    /\ \E s \in WalkInputs : buf = s.buf /\ src = s.text /\ walk = s.walk
    /\ view = NoView
    /\ ext = <<>>
    /\ threw = FALSE
    /\ format = "none"
    /\ raw = <<>>
    /\ fields = <<>>
    /\ exifTexts = <<>>
    /\ xmpXml = Null
    /\ jpegComment = Null
    /\ tryTexts = <<>>
    /\ selected = Null
    /\ rec = JNull
    /\ blk = Null
    /\ blk2 = Null

\* the loop of the given kind, not yet left, at the given place of its body
InLoop(loop, at) == pc = "walk" /\ walk.loop = loop /\ walk.at = at /\ ~walk.done

walkFixed == <<buf, ext, threw, format, raw, fields, exifTexts, xmpXml, jpegComment,
               tryTexts, selected, rec, src, blk, blk2, view>>

PngChunkStep == InLoop("png", "test") /\ walk' = PngIteration(buf, walk) /\ UNCHANGED <<pc, walkFixed>>

JpegSegmentStep == InLoop("jpeg", "test") /\ walk' = JpegTest(buf, walk) /\ UNCHANGED <<pc, walkFixed>>

JpegFillStep == InLoop("jpeg", "fill") /\ walk' = JpegFill(buf, walk) /\ UNCHANGED <<pc, walkFixed>>

WebpChunkStep == InLoop("webp", "test") /\ walk' = WebpIteration(buf, walk) /\ UNCHANGED <<pc, walkFixed>>

IfdEntryStep == InLoop("ifd", "test") /\ walk' = IfdIteration(buf, walk) /\ UNCHANGED <<pc, walkFixed>>

BraceCharStep == InLoop("brace", "test") /\ walk' = BraceIteration(src, walk) /\ UNCHANGED <<pc, walkFixed>>

\* the code after the loop goes on
LeaveLoop == pc = "walk" /\ walk.done /\ pc' = "walked" /\ UNCHANGED <<walk, walkFixed>>

NextWalk ==
    PngChunkStep \/ JpegSegmentStep \/ JpegFillStep \/ WebpChunkStep \/ IfdEntryStep
    \/ BraceCharStep \/ LeaveLoop

SpecWalk == InitWalk /\ [][NextWalk]_vars


\* ---------------------------------------------------------------- C19

\* the length of what the loop reads
InputLength == IF walk.loop = "brace" THEN Len(src) ELSE Len(buf)

\* C19: every loop iteration of the PNG, JPEG and WebP walks, of the IFD read and
\* of the brace matching leaves the read offset strictly ahead of where the
\* iteration began, or leaves the loop; the fill-byte loop never moves back; and
\* the number of steps is bounded by the length of the input, so every walk ends.
C19_LoopsAdvanceOrExit ==
    walk.loop # "none" =>
        /\ (walk.steps > 0 /\ ~walk.done /\ walk.at = "test") => walk.off > walk.prev
        /\ walk.at = "fill" => (walk.off >= walk.prev /\ walk.off <= Len(buf))
        /\ walk.steps <= 2 * InputLength + 2

\* C19, the case: a JPEG walk has passed a run of fill bytes, a restart marker and
\* a segment without a payload and has left the loop at the end of the buffer
C19_FillAndRestartPassed ==
    /\ pc = "walked"
    /\ walk.loop = "jpeg"
    /\ buf = <<255, 216, 255, 255, 208, 255, 225, 0, 2>>
    /\ walk.off = Len(buf)

\* ---------------------------------------------------------------- C20

\* the text is handed to the locator as it is (no byte-order repair) and has the label
LocatedWithLabel ==
    /\ pc # "locate"
    /\ maybeFixUtf16EndianMisdecode(src) = src
    /\ IndexOf(src, NEGATIVE_PROMPT_LABEL) >= 0

\* where the tail of src begins: behind the first newline after the label
TailStartOf(s) == TailStart(s, IndexOfFrom(s, <<10>>, IndexOf(s, NEGATIVE_PROMPT_LABEL)))

TailOf(s) == Slice(s, TailStartOf(s), Len(s))

\* C20: a line starting with Steps: anywhere in the tail is preferred over the
\* other settings keys: the block ends at the end of the first Steps: line, also
\* when a Sampler:/Seed: line comes before it; only when the tail has no Steps:
\* line does the block end at the first line starting with another known key.
C20_StepsLinePreferred ==
    LocatedWithLabel =>
        /\ SETTINGS_STEPS_RE(TailOf(src)).found =>
              blk = Slice(src, 0, TailStartOf(src) + SETTINGS_STEPS_RE(TailOf(src)).end)
        /\ (~SETTINGS_STEPS_RE(TailOf(src)).found /\ SETTINGS_ANY_RE(TailOf(src)).found) =>
              blk = Slice(src, 0, TailStartOf(src) + SETTINGS_ANY_RE(TailOf(src)).end)

\* C20, the case: a Sampler: line comes before the Steps: line, text follows the
\* Steps: line, and the block ends at the Steps: line
C20_SamplerBeforeSteps ==
    /\ pc = "located"
    /\ src = NEGATIVE_PROMPT_LABEL \o T_samplerThenSteps \o T_nlx
    /\ blk = NEGATIVE_PROMPT_LABEL \o T_samplerThenSteps

\* ---------------------------------------------------------------- C21

\* the members the JSON scan is said to look for: sd-metadata, sd_metadata,
\* parameters, and the members forgeMetadataToParameters reads
SdMemberNames ==
    {S_sd_metadata, S_sd_metadata_us, S_parameters, S_prompt, S_Prompt, S_negativePrompt,
     S_NegativePrompt, S_negative_prompt, S_steps, S_Steps, S_sampler, S_Sampler, S_cfgScale,
     S_cfg, S_CFG_scale, S_seed, S_Seed, S_width, S_Width, S_height, S_Height, S_model,
     S_Model, S_hashes}

HasSdMember(obj) == \E k \in SdMemberNames : ~IsUndefined(Prop(obj, k))

\* the file holds the JSON object of the text t and nothing else of interest
HoldsObject(t) == buf \in {JsonFile(t, TRUE), JsonFile(t, FALSE)}

\* C21: the JSON scan turns an embedded JSON object into text only if the
\* object has sd-metadata, sd_metadata, parameters or a Forge-shaped member; an
\* object that parses and has none of them yields no text, so the recovery of a
\* file that holds nothing else returns nothing.
C21_JsonWithoutSdMembersYieldsNothing ==
    \A t \in JsonTexts :
        (pc = "done" /\ Recognised /\ HoldsObject(t) /\ ~HasSdMember(JsonParse(t).v)) =>
            /\ ~Truthy(JsonScan)
            /\ IsNull(rec)
            /\ ~ObjHas(raw, S_parameters)

\* ---------------------------------------------------------------- C22

\* the first 8 bytes are one of the three encoding tags
HasEncodingTag(bytes) ==
    Slice(bytes, 0, 8) \in {EncodingTag(B_ASCII), EncodingTag(B_UNICODE), EncodingTag(B_JIS)}

\* C22: the UserComment decoder removes the first 8 bytes exactly when they are
\* one of the encoding tags ASCII, UNICODE or JIS padded with NULs; of any other
\* value, also one whose text begins with the letters ASCII, UNICODE or JIS, no
\* byte is removed: the text read from EXIF is the whole text of the value.
C22_PrefixDroppedIffTag ==
    \A c \in UserComments :
        (pc = "done" /\ format = "jpeg" /\ buf = CommentFile(c)) => exifTexts = <<c.text>>

\* ---------------------------------------------------------------- C23

\* the text of data decoded again with the encoding that the first-pass text
\* declares: Null without a declaration or for an encoding that is not supported
Redecoded(data) ==
    IF MatchEncoding(decodeBest(data)) = Null THEN Null
    ELSE decodeByXmlEncoding(data, MatchEncoding(decodeBest(data)))

\* C23: without BOM and without the NUL-ratio trigger, when the first-pass text
\* declares a supported encoding, the text decoded again with it is returned
\* only if it scores no worse than the first-pass text; otherwise the
\* first-pass text is returned.
C23_RedecodedOnlyIfNoWorse ==
    \A d \in XmpDatas :
        (pc = "done" /\ format = "webp" /\ buf = XmpFile(d) /\ Redecoded(d) # Null) =>
            xmpXml = IF scoreDecodedString10(Redecoded(d)) >= scoreDecodedString10(decodeBest(d))
                     THEN Redecoded(d)
                     ELSE decodeBest(d)

\* ---------------------------------------------------------------- C24

\* the payloads of the segments before the first EOI or SOS that satisfy Test
SegmentsBeforeStop(Test(_)) == SelectSeq(FileSegments(buf, 2), Test)

IsExifSegment(g) == g.marker = 225 /\ startsWith(g.payload, B_Exif)
IsXmpSegment(g) == g.marker = 225 /\ startsWith(g.payload, XMP_STD)
IsTextComment(g) == g.marker = 254 /\ tryDecodeUTF8(g.payload) \notin {Null, <<>>}

\* the last element of a sequence that is not empty
Last(q) == q[Len(q)]

\* C24: the JPEG walker stops at the first EOI or SOS: only the segments
\* before it contribute to the EXIF texts, the XMP text and the comment, and so
\* to raw["EXIF"], raw["XMP"] and raw["Comment"]; restart markers are passed
\* without a length; of several EXIF segments the last one before the stop is
\* the payload that is read.
C24_WalkStopsAtEoiOrSos ==
    (pc = "done" /\ format = "jpeg" /\ buf \in StopBuffers) =>
        /\ exifTexts = IF SegmentsBeforeStop(IsExifSegment) = <<>> THEN <<>>
                       ELSE ExifTextsOf(Last(SegmentsBeforeStop(IsExifSegment)).payload)
        /\ jpegComment = IF SegmentsBeforeStop(IsTextComment) = <<>> THEN Null
                         ELSE tryDecodeUTF8(Last(SegmentsBeforeStop(IsTextComment)).payload)
        /\ (SegmentsBeforeStop(IsXmpSegment) = <<>>) = (xmpXml = Null)
        /\ ObjHas(raw, S_EXIF) = (exifTexts # <<>>)
        /\ ObjHas(raw, S_EXIF) => IsText(ObjGet(raw, S_EXIF), JoinTexts(exifTexts, <<10>>))
        /\ ObjHas(raw, S_Comment) = (jpegComment # Null)
        /\ ObjHas(raw, S_Comment) => IsText(ObjGet(raw, S_Comment), jpegComment)
        /\ ObjHas(raw, S_XMP) = (xmpXml # Null)

\* C24, the case: two EXIF segments with a restart marker between them, then
\* EOI, then a comment: the text of the second EXIF segment is read and the
\* comment behind EOI is not
C24_CommentBehindEoi ==
    /\ pc = "done" /\ format = "jpeg"
    /\ buf = <<255, 216>> \o Segment(225, ExifBlock(T_dogBlock, <<>>, <<>>)) \o <<255, 208>>
              \o Segment(225, ExifBlock(T_catBlock, <<>>, <<>>))
              \o <<255, 217>> \o Segment(254, T_foxBlock) \o <<0, 0>>
    /\ exifTexts = <<T_catBlock>>
    /\ jpegComment = Null
    /\ IsText(ObjGet(raw, S_EXIF), T_catBlock)
    /\ ~ObjHas(raw, S_Comment)

\* ---------------------------------------------------------------- C25

\* the candidate text is a JSON object with Stable-Diffusion metadata
IsSdJson(t) ==
    /\ tryParseJsonPayload(t).t = "obj"
    /\ HasSdMember(tryParseJsonPayload(t))

\* no candidate text has the label and none is a JSON object with metadata
NoLabelNoSdJson ==
    \A i \in 1..Len(tryTexts) :
        ~Includes(tryTexts[i], NEGATIVE_PROMPT_LABEL) /\ ~IsSdJson(tryTexts[i])

\* C25: in the JPEG and the WebP reader, when no candidate text contains
\* "Negative prompt:" and none is a JSON object with Stable-Diffusion metadata,
\* nothing is selected: XMP text or a comment that is longer than 80 characters
\* or has two commas does not become raw["parameters"].
C25_NothingSelectedWithoutLabel ==
    (pc = "done" /\ Recognised /\ NoLabelNoSdJson) =>
        /\ selected = Null
        /\ \A i \in 1..Len(tryTexts) : ~RawHasParameters(tryTexts[i])

\* ---------------------------------------------------------------- C26

\* the entity that starts at i of s, or <<>>
EntityAt(s, i) ==
    IF StartsAt(s, i, S_quot) THEN S_quot
    ELSE IF StartsAt(s, i, S_apos) THEN S_apos
    ELSE IF StartsAt(s, i, S_amp) THEN S_amp
    ELSE IF StartsAt(s, i, S_lt) THEN S_lt
    ELSE IF StartsAt(s, i, S_gt) THEN S_gt
    ELSE <<>>

CharOfEntity(e) ==
    CASE e = S_quot -> <<34>>
      [] e = S_apos -> <<39>>
      [] e = S_amp -> <<38>>
      [] e = S_lt -> <<60>>
      [] e = S_gt -> <<62>>

\* one pass from the left: an entity gives its character, and what it gave is
\* not read again
RECURSIVE SinglePassFrom(_, _)
SinglePassFrom(s, i) ==
    IF i >= Len(s) THEN <<>>
    ELSE IF EntityAt(s, i) # <<>>
         THEN CharOfEntity(EntityAt(s, i)) \o SinglePassFrom(s, i + Len(EntityAt(s, i)))
         ELSE <<At(s, i)>> \o SinglePassFrom(s, i + 1)

SinglePass(s) == SinglePassFrom(s, 0)

\* the value of parameters="..." in the XMP text that was read
ParametersAttribute == MatchAttribute(xmpXml, S_parameters)

HasParametersAttribute ==
    /\ pc = "done" /\ format \in {"jpeg", "webp"}
    /\ xmpXml # Null /\ xmpXml # <<>>
    /\ ParametersAttribute # Null /\ ParametersAttribute # <<>>

\* C26: htmlUnescape decodes the five entities in a single pass, so the text
\* an XMP attribute contributes to the candidates is the single-pass decoding
\* of its value ("&amp;lt;" gives "&lt;"), and the unescaping of the escaping
\* of a text s is s.
C26_UnescapeIsSinglePass ==
    /\ HasParametersAttribute =>
            \E i \in 1..Len(tryTexts) : tryTexts[i] = SinglePass(ParametersAttribute)
    /\ \A s \in AttributeTexts :
            (pc = "done" /\ buf = EscapedFile(s) /\ format = "webp") =>
                \E i \in 1..Len(tryTexts) : tryTexts[i] = s

\* ---------------------------------------------------------------- the sidebar view

\* the three sources of ImageMetaView: src/view.ts, src/unnamed/part_002 (the
\* search bar that is enabled and disabled) and src/unnamed/part_003 (no search)
Variants == {"view", "part_002", "part_003"}

\* how many renderForFile calls a run starts
MaxRenders == 2

V_catHat == <<67,97,116,32,104,97,116>>                                   \* Cat hat
V_aBat == <<97,32,98,97,116,32,97,116>>                                   \* a bat at
V_tallCat == <<116,97,108,108,32,99,97,116>>                              \* tall cat
V_bad == <<98,97,100>>                                                    \* bad
V_emptyObject == <<123,125>>                                              \* {}
V_graph == <<123,34,97,34,58,49,125>>                                     \* {"a":1}

\* what parseImageMeta gives the view: fields is ComfyUI's (generator, or
\* prompt_json or workflow_json truthy), fields.prompt, fields.negative_prompt,
\* the two JSON texts, fields.parameters_raw ?? raw.parameters (Null: neither is
\* a string), JSON.stringify(fields, null, 2) and JSON.stringify(raw, null, 2)
Meta(comfy, prompt, negative, prompt_json, workflow_json, parameters, fallback, rawJson) ==
    [comfy |-> comfy, prompt |-> prompt, negative_prompt |-> negative,
     prompt_json |-> prompt_json, workflow_json |-> workflow_json,
     parameters |-> parameters, fallback |-> fallback, rawJson |-> rawJson]

NoMeta == Meta(FALSE, Null, Null, Null, Null, Null, V_emptyObject, V_emptyObject)

\* a file handed to renderForFile: null, a file that is no image, or an image
\* with what reading and parsing it gives (fails: readBinary rejects)
File(name, kind, fails, meta) == [name |-> name, kind |-> kind, fails |-> fails, meta |-> meta]

F_null == File("", "null", FALSE, NoMeta)
F_note == File("note.md", "note", FALSE, NoMeta)
F_catHat == File("cat.png", "image", FALSE,
                 Meta(FALSE, Null, Null, Null, Null, V_catHat, V_emptyObject, V_emptyObject))
F_aBat == File("bat.png", "image", FALSE,
               Meta(FALSE, Null, Null, Null, Null, V_aBat, V_emptyObject, V_emptyObject))
F_comfy == File("comfy.png", "image", FALSE,
                Meta(TRUE, V_tallCat, V_bad, V_graph, Null, Null, V_emptyObject, V_emptyObject))
F_plain == File("plain.jpg", "image", FALSE, NoMeta)
F_gone == File("gone.png", "image", TRUE, NoMeta)

Files == {F_null, F_note, F_catHat, F_aBat, F_comfy, F_plain, F_gone}

\* what is typed into the search input: nothing, a blank, "a" and "At"
Queries == {<<>>, <<32>>, <<97>>, <<65, 116>>}

\* an element of the pane: the search bar id, the body of render id, the title
\* of a file, a message, or textarea k of render id (target: it has the class
\* imgmeta-search-target)
Item(kind, id, file, k, value, target) ==
    [kind |-> kind, id |-> id, file |-> file, k |-> k, value |-> value, target |-> target]

BarItem(b) == Item("bar", b, "", 0, <<>>, FALSE)
BodyItem(r) == Item("body", r, "", 0, <<>>, FALSE)
TitleItem(r, name) == Item("title", r, name, 0, <<>>, FALSE)
MessageItem(r, name) == Item("msg", r, name, 0, <<>>, FALSE)
TextareaItem(r, name, k, value, target) == Item("textarea", r, name, k, value, target)

\* the view after construction: no search bar, nothing matched, an empty
\* contentEl. searchBarEl stands for the six references buildSearchBar assigns
\* together (the bar, its input, count, case, prev and next elements); 0: null.
\* bars[b]: the count text, the input's value and the disabled state of bar b;
\* bodies[r]: the children of the body that render r created; pane: the
\* children of contentEl; pending: the renders waiting for the file
NewView(variant) ==
    [variant |-> variant,
     searchQuery |-> <<>>, searchCaseSensitive |-> FALSE, searchEnabled |-> FALSE,
     matches |-> <<>>, matchIndex |-> -1,
     searchBarEl |-> 0, bodyEl |-> 0,
     bars |-> <<>>, bodies |-> [r \in 1..MaxRenders |-> <<>>], pane |-> <<>>,
     pending |-> {}, renders |-> 0, requested |-> F_null, op |-> "new"]

\* parent.createEl(...): the item becomes the last child of contentEl (0) or
\* of the body of render parent
AppendTo(v, parent, item) ==
    IF parent = 0 THEN [v EXCEPT !.pane = Append(@, item)]
    ELSE [v EXCEPT !.bodies[parent] = Append(@, item)]

\* the count text `${current}/${total}` as the pair <<current, total>>
CountText(matches, matchIndex) ==
    IF Len(matches) > 0 THEN <<(IF matchIndex >= 0 THEN matchIndex + 1 ELSE 0), Len(matches)>>
    ELSE <<0, 0>>

updateCount(v) ==
    IF v.searchBarEl = 0 THEN v
    ELSE [v EXCEPT !.bars[v.searchBarEl].count = CountText(v.matches, v.matchIndex)]

\* a bar created under parent: an empty count, the input showing value
NewBar(value) == [count |-> <<>>, value |-> value, disabled |-> FALSE]

buildSearchBar(v, parent) ==
    updateCount(AppendTo([v EXCEPT !.bars = Append(@, NewBar(v.searchQuery)),
                                   !.searchBarEl = Len(v.bars) + 1],
                         parent, BarItem(Len(v.bars) + 1)))

\* root.querySelectorAll("textarea..."): the textareas under the items, in
\* document order (onlyTarget: the selector is textarea.imgmeta-search-target)
RECURSIVE TextareasUnder(_, _, _)

TextareasOf(v, item, onlyTarget) ==
    IF item.kind = "textarea" THEN (IF onlyTarget => item.target THEN <<item>> ELSE <<>>)
    ELSE IF item.kind = "body" THEN TextareasUnder(v, v.bodies[item.id], onlyTarget)
    ELSE <<>>

TextareasUnder(v, items, onlyTarget) ==
    IF items = <<>> THEN <<>>
    ELSE TextareasOf(v, Head(items), onlyTarget) \o TextareasUnder(v, Tail(items), onlyTarget)

collectTargets(v) == TextareasUnder(v, v.pane, FALSE)

normalize(v, text) == IF v.searchCaseSensitive THEN text ELSE toLowerCase(text)

\* the textarea element of an item
ElementOf(ta) == <<ta.id, ta.k>>

\* the while loop of recomputeMatches over one textarea: idx is
\* nt.indexOf(nq, from)
RECURSIVE MatchesFrom(_, _, _, _, _)
MatchesFrom(ta, nt, nq, qlen, idx) ==
    IF idx = -1 THEN <<>>
    ELSE <<[el |-> ElementOf(ta), start |-> idx, end |-> idx + qlen]>>
         \o MatchesFrom(ta, nt, nq, qlen,
                        IndexOfFrom(nt, nq, idx + (IF qlen > 1 THEN qlen ELSE 1)))

\* the for loop of recomputeMatches over the targets
RECURSIVE MatchesOf(_, _, _)
MatchesOf(v, targets, q) ==
    IF targets = <<>> THEN <<>>
    ELSE MatchesFrom(Head(targets), normalize(v, Head(targets).value), normalize(v, q),
                     Len(q), IndexOfFrom(normalize(v, Head(targets).value), normalize(v, q), 0))
         \o MatchesOf(v, Tail(targets), q)

\* focusCurrentMatch: the selection and the scrolling are the browser's; of
\* the view it changes the count text
focusCurrentMatch(v) ==
    IF v.matchIndex < 0 \/ v.matchIndex >= Len(v.matches) THEN v ELSE updateCount(v)

\* recomputeMatches from "if (this.matches.length > 0)" on
SettleIndex(v, focus) ==
    IF Len(v.matches) > 0
    THEN IF focus
         THEN focusCurrentMatch([v EXCEPT !.matchIndex =
                                     IF @ < 0 \/ @ >= Len(v.matches) THEN 0 ELSE @])
         ELSE [v EXCEPT !.matchIndex = IF @ < 0 \/ @ >= Len(v.matches) THEN 0 ELSE @]
    ELSE v

\* a recomputeMatches that keeps the index whatever focus is
recomputeMatchesKeepingIndex(v, focus) ==
    IF trim(v.searchQuery) = <<>>
    THEN updateCount([v EXCEPT !.matches = <<>>])
    ELSE SettleIndex(updateCount([v EXCEPT !.matches =
                                      MatchesOf(v, collectTargets(v), v.searchQuery)]),
                     focus)

recomputeMatches(v, focus) ==
    IF trim(v.searchQuery) = <<>>
    THEN updateCount([v EXCEPT !.matches = <<>>,
                               !.matchIndex = IF focus THEN @ ELSE -1])
    ELSE SettleIndex(updateCount([v EXCEPT !.matches =
                                      MatchesOf(v, collectTargets(v), v.searchQuery),
                                           !.matchIndex = IF focus THEN @ ELSE -1]),
                     focus)

findNext(v) ==
    IF Len(v.matches) = 0 THEN v
    ELSE focusCurrentMatch([v EXCEPT !.matchIndex =
                                IF @ = -1 THEN 0 ELSE (@ + 1) % Len(v.matches)])

findPrev(v) ==
    IF Len(v.matches) = 0 THEN v
    ELSE focusCurrentMatch([v EXCEPT !.matchIndex =
                                IF @ = -1 THEN 0 ELSE (@ - 1 + Len(v.matches)) % Len(v.matches)])

openSearchBar(v) ==
    recomputeMatches(IF v.searchBarEl = 0 THEN buildSearchBar(v, 0) ELSE v, FALSE)

\* the textareas renderForFile creates for ComfyUI fields, k counting them
TextareaIf(r, name, k, value) ==
    IF value # Null /\ value # <<>> THEN <<TextareaItem(r, name, k, value, FALSE)>> ELSE <<>>

ComfyTextareas(r, name, meta) ==
    TextareaIf(r, name, 1, meta.prompt) \o TextareaIf(r, name, 2, meta.negative_prompt)
    \o TextareaIf(r, name, 3, meta.prompt_json) \o TextareaIf(r, name, 4, meta.workflow_json)

\* ta.value = a1111 ?? meta.raw["parameters"] ?? fallback
ParametersOrFallback(meta) == IF meta.parameters # Null THEN meta.parameters ELSE meta.fallback

\* the one textarea of the other branch: a search target if isA1111
ParametersTextarea(r, name, meta) ==
    <<TextareaItem(r, name, 1, ParametersOrFallback(meta), meta.parameters # Null)>>

RECURSIVE AppendAll(_, _, _)
AppendAll(v, parent, items) ==
    IF items = <<>> THEN v ELSE AppendAll(AppendTo(v, parent, Head(items)), parent, Tail(items))

\* renderForFile(f) as render r, up to its return or its first await:
\* contentEl is emptied, a bar and a body are created
Awaiting(v, f, r) == [v EXCEPT !.pending = @ \cup {[file |-> f, r |-> r]}]

renderForFile(v, f, r) ==
    IF f.kind # "image"
    THEN recomputeMatches(
             AppendTo([AppendTo(buildSearchBar([v EXCEPT !.pane = <<>>], 0), 0, BodyItem(r))
                          EXCEPT !.bodyEl = r],
                      r, MessageItem(r, f.name)),
             FALSE)
    ELSE Awaiting([AppendTo(buildSearchBar([v EXCEPT !.pane = <<>>], 0), 0, BodyItem(r))
                      EXCEPT !.bodyEl = r],
                  f, r)

\* renderForFile after the awaits: the title and the textareas go to the body
\* the call created, then recomputeMatches; the catch block when the read fails
AfterRead(v, f, r) ==
    IF f.fails THEN recomputeMatches(v, FALSE)
    ELSE recomputeMatches(
             AppendAll(AppendTo(v, r, TitleItem(r, f.name)), r,
                       IF f.meta.comfy THEN ComfyTextareas(r, f.name, f.meta)
                       ELSE ParametersTextarea(r, f.name, f.meta)),
             FALSE)

\* ---- src/unnamed/part_002: the search bar that is enabled and disabled

V_dash == <<8211>>                                                        \* the dash shown while disabled

updateCount_2(v) ==
    IF v.searchBarEl = 0 THEN v
    ELSE [v EXCEPT !.bars[v.searchBarEl].count =
              IF v.searchEnabled THEN CountText(v.matches, v.matchIndex) ELSE V_dash]

setSearchEnabled(v, enabled) ==
    IF v.searchBarEl = 0 THEN [v EXCEPT !.searchEnabled = enabled]
    ELSE updateCount_2([v EXCEPT !.searchEnabled = enabled,
                                 !.bars[v.searchBarEl].disabled = ~enabled])

\* buildSearchBar ends with updateCount and setSearchEnabled(this.searchEnabled)
buildSearchBar_2(v, parent) ==
    setSearchEnabled(
        updateCount_2(AppendTo([v EXCEPT !.bars = Append(@, NewBar(v.searchQuery)),
                                         !.searchBarEl = Len(v.bars) + 1],
                               parent, BarItem(Len(v.bars) + 1))),
        v.searchEnabled)

collectTargets_2(v) == TextareasUnder(v, v.pane, TRUE)

SettleIndex_2(v, focus) ==
    IF Len(v.matches) > 0
    THEN IF focus
         THEN updateCount_2([v EXCEPT !.matchIndex =
                                 IF @ < 0 \/ @ >= Len(v.matches) THEN 0 ELSE @])
         ELSE [v EXCEPT !.matchIndex = IF @ < 0 \/ @ >= Len(v.matches) THEN 0 ELSE @]
    ELSE v

recomputeMatches_2(v, focus) ==
    IF ~v.searchEnabled
    THEN updateCount_2([v EXCEPT !.matches = <<>>, !.matchIndex = -1])
    ELSE IF trim(v.searchQuery) = <<>>
    THEN updateCount_2([v EXCEPT !.matches = <<>>,
                                 !.matchIndex = IF focus THEN @ ELSE -1])
    ELSE SettleIndex_2(updateCount_2([v EXCEPT !.matches =
                                          MatchesOf(v, collectTargets_2(v), v.searchQuery),
                                               !.matchIndex = IF focus THEN @ ELSE -1]),
                       focus)

focusCurrentMatch_2(v) ==
    IF v.matchIndex < 0 \/ v.matchIndex >= Len(v.matches) THEN v ELSE updateCount_2(v)

findNext_2(v) ==
    IF Len(v.matches) = 0 THEN v
    ELSE focusCurrentMatch_2([v EXCEPT !.matchIndex =
                                  IF @ = -1 THEN 0 ELSE (@ + 1) % Len(v.matches)])

findPrev_2(v) ==
    IF Len(v.matches) = 0 THEN v
    ELSE focusCurrentMatch_2([v EXCEPT !.matchIndex =
                                  IF @ = -1 THEN 0 ELSE (@ - 1 + Len(v.matches)) % Len(v.matches)])

\* if (!this.searchEnabled) return, read after the bar was built
OpenIfEnabled(v) == IF ~v.searchEnabled THEN v ELSE recomputeMatches_2(v, FALSE)

openSearchBar_2(v) ==
    OpenIfEnabled(IF v.searchBarEl = 0 THEN buildSearchBar_2(v, 0) ELSE v)

\* renderForFile(f) as render r, up to its return or its first await:
\* contentEl is emptied and a body created; the bar is built under the title
\* of the body, for an image only after the awaits
renderForFile_2(v, f, r) ==
    IF f.kind # "image"
    THEN recomputeMatches_2(
             setSearchEnabled(
                 AppendTo(buildSearchBar_2(
                              AppendTo([AppendTo([v EXCEPT !.pane = <<>>], 0, BodyItem(r))
                                           EXCEPT !.bodyEl = r],
                                       r, TitleItem(r, f.name)),
                              r),
                          r, MessageItem(r, f.name)),
                 FALSE),
             FALSE)
    ELSE Awaiting([AppendTo([v EXCEPT !.pane = <<>>], 0, BodyItem(r)) EXCEPT !.bodyEl = r],
                  f, r)

\* the textareas of the three branches behind the bar; only the A1111 one is
\* a search target
Textareas_2(r, name, meta) ==
    IF meta.comfy THEN ComfyTextareas(r, name, meta) ELSE ParametersTextarea(r, name, meta)

\* this.setSearchEnabled(...) of the three branches
EnabledFor(meta) == ~meta.comfy /\ meta.parameters # Null

AfterRead_2(v, f, r) ==
    IF f.fails THEN recomputeMatches_2(setSearchEnabled(v, FALSE), FALSE)
    ELSE recomputeMatches_2(
             AppendAll(setSearchEnabled(buildSearchBar_2(AppendTo(v, r, TitleItem(r, f.name)), r),
                                        EnabledFor(f.meta)),
                       r, Textareas_2(r, f.name, f.meta)),
             FALSE)

\* ---- src/unnamed/part_003: no search bar and no body

renderForFile_3(v, f, r) ==
    IF f.kind # "image" THEN AppendTo([v EXCEPT !.pane = <<>>], 0, MessageItem(r, f.name))
    ELSE Awaiting([v EXCEPT !.pane = <<>>], f, r)

\* the title, the textarea and the textarea of the raw chunks go to contentEl
AfterRead_3(v, f, r) ==
    IF f.fails THEN v
    ELSE AppendAll(v, 0, <<TitleItem(r, f.name),
                           TextareaItem(r, f.name, 1, ParametersOrFallback(f.meta), FALSE),
                           TextareaItem(r, f.name, 2, f.meta.rawJson, FALSE)>>)

\* ---- the view as a state machine: the handlers, each run to its end or to
\* its await, in any order

InitView ==
    /\ pc = "view"
    /\ view \in {NewView(variant) : variant \in Variants}
    /\ walk = NoWalk
    /\ buf = <<>>
    /\ ext = <<>>
    /\ threw = FALSE
    /\ format = "none"
    /\ raw = <<>>
    /\ fields = <<>>
    /\ exifTexts = <<>>
    /\ xmpXml = Null
    /\ jpegComment = Null
    /\ tryTexts = <<>>
    /\ selected = Null
    /\ rec = JNull
    /\ src = Null
    /\ blk = Null
    /\ blk2 = Null

viewFixed == <<pc, buf, ext, threw, format, raw, fields, exifTexts, xmpXml, jpegComment,
               tryTexts, selected, rec, src, blk, blk2, walk>>

\* the items of kind and id among items
HasItem(items, kind, id) == \E i \in 1..Len(items) : items[i].kind = kind /\ items[i].id = id

\* bar b is in the pane: a child of contentEl, or of a body that is one
BarInPane(v, b) ==
    \/ HasItem(v.pane, "bar", b)
    \/ \E r \in 1..MaxRenders : HasItem(v.pane, "body", r) /\ HasItem(v.bodies[r], "bar", b)

\* the bars a user can type into or click
UsableBars(v) == {b \in 1..Len(v.bars) : BarInPane(v, b) /\ ~v.bars[b].disabled}

HasSearch(v) == v.variant \in {"view", "part_002"}

\* the handler named op has run and left v
Ran(v, op) == [v EXCEPT !.op = op]

\* a file-open event (or onOpen) calls renderForFile(f)
Rendered(v, f, r) ==
    CASE v.variant = "view" -> renderForFile(v, f, r)
      [] v.variant = "part_002" -> renderForFile_2(v, f, r)
      [] v.variant = "part_003" -> renderForFile_3(v, f, r)

RenderStart ==
    /\ pc = "view" /\ view.renders < MaxRenders
    /\ \E f \in Files :
           view' = Ran(Rendered([view EXCEPT !.renders = @ + 1, !.requested = f],
                                f, view.renders + 1),
                       "render")
    /\ UNCHANGED viewFixed

\* the read and the parse of a pending render have settled
Resumed(v, f, r) ==
    CASE v.variant = "view" -> AfterRead(v, f, r)
      [] v.variant = "part_002" -> AfterRead_2(v, f, r)
      [] v.variant = "part_003" -> AfterRead_3(v, f, r)

RenderComplete ==
    /\ pc = "view"
    /\ \E p \in view.pending :
           view' = Ran(Resumed([view EXCEPT !.pending = @ \ {p}], p.file, p.r), "complete")
    /\ UNCHANGED viewFixed

\* the input event of a bar's input: this.searchQuery = input.value
Typed(v, b, q) ==
    IF v.variant = "view"
    THEN recomputeMatches([v EXCEPT !.bars[b].value = q, !.searchQuery = q], FALSE)
    ELSE recomputeMatches_2([v EXCEPT !.bars[b].value = q, !.searchQuery = q], FALSE)

Input ==
    /\ pc = "view" /\ HasSearch(view)
    /\ \E b \in UsableBars(view) : \E q \in Queries \ {view.bars[b].value} :
           view' = Ran(Typed(view, b, q), "input")
    /\ UNCHANGED viewFixed

\* caseBtn.onclick
Toggled(v) ==
    IF v.variant = "view"
    THEN recomputeMatches([v EXCEPT !.searchCaseSensitive = ~@], FALSE)
    ELSE recomputeMatches_2([v EXCEPT !.searchCaseSensitive = ~@], FALSE)

ToggleCase ==
    /\ pc = "view" /\ HasSearch(view)
    /\ UsableBars(view) # {}
    /\ view' = Ran(Toggled(view), "case")
    /\ UNCHANGED viewFixed

\* Cmd/Ctrl+F in the pane
OpenSearchBar ==
    /\ pc = "view" /\ HasSearch(view)
    /\ view' = Ran(IF view.variant = "view" THEN openSearchBar(view) ELSE openSearchBar_2(view),
                   "open")
    /\ UNCHANGED viewFixed

\* F3, Enter in the input, or the Next button
FindNext ==
    /\ pc = "view" /\ HasSearch(view)
    /\ view' = Ran(IF view.variant = "view" THEN findNext(view) ELSE findNext_2(view),
                   "findNext")
    /\ UNCHANGED viewFixed

\* Shift+F3, Shift+Enter in the input, or the Prev button
FindPrev ==
    /\ pc = "view" /\ HasSearch(view)
    /\ view' = Ran(IF view.variant = "view" THEN findPrev(view) ELSE findPrev_2(view),
                   "findPrev")
    /\ UNCHANGED viewFixed

NextView ==
    RenderStart \/ RenderComplete \/ Input \/ ToggleCase \/ OpenSearchBar \/ FindNext \/ FindPrev

SpecView == InitView /\ [][NextView]_vars

\* ---------------------------------------------------------------- C27

\* the match list is empty and matchIndex is -1, or matchIndex is the index
\* of a match
IndexInRange(v) ==
    \/ Len(v.matches) = 0 /\ v.matchIndex = -1
    \/ Len(v.matches) > 0 /\ 0 <= v.matchIndex /\ v.matchIndex < Len(v.matches)

\* C27: in the view of src/view.ts and in the one of part_002, after every
\* handler (a query edit, a case toggle, a render or its completion,
\* openSearchBar, findNext, findPrev) the match list is empty and matchIndex is
\* -1, or 0 <= matchIndex < the number of matches; findNext and findPrev
\* change nothing of the view when the list is empty.
C27_MatchIndexInRange ==
    [][HasSearch(view) =>
          /\ IndexInRange(view')
          /\ (Len(view.matches) = 0 /\ view'.op \in {"findNext", "findPrev"}) =>
                 view' = Ran(view, view'.op)]_vars

\* C27 witness: findPrev has wrapped from the first match to the last of three
\* or more.
C27_WrappedToLast ==
    /\ pc = "view" /\ view.variant = "view" /\ view.op = "findPrev"
    /\ Len(view.matches) >= 3 /\ view.matchIndex = Len(view.matches) - 1

\* ---------------------------------------------------------------- C28

\* the count text of the bar the view refers to
CountShown(v) == IF v.searchBarEl = 0 THEN <<>> ELSE v.bars[v.searchBarEl].count

\* C28: in the view of src/view.ts, when the query has just been edited and
\* N >= 1 matches exist, the findNext that follows leaves matchIndex at 0 and
\* the count text at 1/N; a findNext that follows a findNext advances by one
\* and wraps from the last match to the first.
C28_FirstFindNextFocusesFirst ==
    [][(view.variant = "view" /\ Len(view.matches) >= 1 /\ view'.op = "findNext") =>
          /\ view.op = "input" =>
                 /\ view'.matchIndex = 0
                 /\ CountShown(view') = <<1, Len(view.matches)>>
          /\ view.op = "findNext" =>
                 /\ view'.matchIndex = (view.matchIndex + 1) % Len(view.matches)
                 /\ CountShown(view') = <<view'.matchIndex + 1, Len(view.matches)>>]_vars

\* ---------------------------------------------------------------- C29

\* the titles, messages and textareas under the items, bodies opened
RECURSIVE ShownUnder(_, _)

ShownOf(v, item) ==
    IF item.kind = "body" THEN ShownUnder(v, v.bodies[item.id])
    ELSE IF item.kind = "bar" THEN <<>>
    ELSE <<item>>

ShownUnder(v, items) ==
    IF items = <<>> THEN <<>> ELSE ShownOf(v, Head(items)) \o ShownUnder(v, Tail(items))

\* how many children of contentEl are of the kind
CountKind(v, kind) == Cardinality({i \in 1..Len(v.pane) : v.pane[i].kind = kind})

\* all that the pane shows was made by the last render, for the file it was
\* asked to show
ShowsLastOnly(v) ==
    \A i \in 1..Len(ShownUnder(v, v.pane)) :
        /\ ShownUnder(v, v.pane)[i].id = v.renders
        /\ ShownUnder(v, v.pane)[i].file = v.requested.name

\* every match is in a textarea of the pane
MatchesInPane(v) ==
    \A i \in 1..Len(v.matches) :
        \E j \in 1..Len(ShownUnder(v, v.pane)) :
            /\ ShownUnder(v, v.pane)[j].kind = "textarea"
            /\ ElementOf(ShownUnder(v, v.pane)[j]) = v.matches[i].el

\* no render is waiting for its file
AllCompleted(v) == v.renders >= 1 /\ v.pending = {}

\* C29: in the view of src/view.ts and in the one of part_003, once every
\* renderForFile call has completed (also two calls of which the second
\* started before the first one's read had finished, in either order of
\* finishing), the pane shows the metadata of the file requested last and of
\* no other; in src/view.ts it holds one search bar and one body, and every
\* match is in a textarea of the pane.
C29_PaneShowsLastFileOnly ==
    (pc = "view" /\ view.variant \in {"view", "part_003"} /\ AllCompleted(view)) =>
        /\ ShowsLastOnly(view)
        /\ view.variant = "view" =>
               /\ CountKind(view, "bar") = 1 /\ CountKind(view, "body") = 1
               /\ Len(view.pane) = 2
               /\ MatchesInPane(view)

\* ---------------------------------------------------------------- C30

\* the file is an image that was read, with A1111 parameters and no ComfyUI data
ShowsParameters(f) == f.kind = "image" /\ ~f.fails /\ EnabledFor(f.meta)

\* the bars in the pane
BarsInPane(v) == {b \in 1..Len(v.bars) : BarInPane(v, b)}

\* C30: in the view of part_002, once every renderForFile call has completed,
\* searchEnabled is true exactly when the file requested last is an image with
\* A1111 parameters and no ComfyUI data, and the bar the view refers to (its
\* input, count and buttons) is in the pane, whatever the order in which
\* overlapping renders finish.
C30_EnabledForLastFile ==
    (pc = "view" /\ view.variant = "part_002" /\ AllCompleted(view)) =>
        /\ view.searchEnabled <=> ShowsParameters(view.requested)
        /\ BarsInPane(view) # {} => view.searchBarEl \in BarsInPane(view)

====
